---------------------------- MODULE Spec2Model ----------------------------
(***************************************************************************)
(* PopSim: agents living one simulated day in a grid city.                 *)
(*                                                                         *)
(* Units.  Simulated time is counted in minutes (the source uses           *)
(* fractional hours; every constant of the source is a whole number of     *)
(* minutes).  Real time is counted in 1/UnitsPerSec seconds, the real time *)
(* that one simulated minute takes, so that deltaSeconds and simHours of   *)
(* the run loop are both integers.  Positions and moveProgress are counted *)
(* in 1/UnitsPerSec tiles, so that speed * deltaSeconds is an integer for  *)
(* the integer speeds (tiles per second) the model draws.                  *)
(***************************************************************************)
EXTENDS Integers, Sequences, FiniteSets, TLC

VARIABLES
    city,      \* Simulation.city: which City the run uses (a reference)
    agents,    \* Simulation.agents: sequence of Agent records, creation order
    drivers,   \* Simulation.drivers: sequence of DeliveryDriver records
    clock,     \* simHours of the latest tick, in minutes
    running,   \* Simulation.running
    stalls,    \* number of long frame gaps the run has had so far
    route,     \* one findPath call: its arguments and its result
    paused,      \* Simulation.paused
    timer,       \* performance.now() and startTime, lastFrameTime, _pauseStart,
                 \* _pausedTotal, in 1/UnitsPerSec seconds; moved is the sum
                 \* of the deltaSeconds the update calls of the run were given
    replayState, \* _replaying, _replayIndex, _replayStart
    frameCache,  \* Simulation._frameCache: the frames recorded, oldest first
    cached,      \* _cachedLogs and _cachedPaths, or null
    animFrame,   \* the callback animFrameId names, if it is still to run:
                 \* none (null, or the id of one that ran or was cancelled),
                 \* loop, replay
    pending,     \* the callbacks requestAnimationFrame holds, oldest first
    call,        \* the latest call of a control operation or callback: which
                 \* one, whether it got past its guard, and the update and
                 \* _recordFrame calls it made, in order
    used         \* how many start, pause and replay calls got past their guard,
                 \* and how many replays ran to completion

\* the fields of the Simulation that pause, resume and replay work on
controls ==
    <<paused, timer, replayState, frameCache, cached, animFrame, pending, call,
      used>>

vars == <<city, agents, drivers, clock, running, stalls, route,
          paused, timer, replayState, frameCache, cached, animFrame, pending,
          call, used>>

\* _cachedLogs = null, _cachedPaths = null
NoCache == <<>>

\* the controls as the constructor leaves them
Constructed ==
    /\ paused = FALSE
    /\ timer = [now |-> 0, startTime |-> 0, lastFrameTime |-> 0,
                pauseStart |-> 0, pausedTotal |-> 0, moved |-> 0]
    /\ replayState = [replaying |-> FALSE, replayIndex |-> 0, replayStart |-> 0]
    /\ frameCache = <<>>
    /\ cached = NoCache
    /\ animFrame = "none"
    /\ pending = <<>>
    /\ call = [op |-> "constructor", done |-> TRUE, order |-> <<>>]
    /\ used = [runs |-> 0, pauses |-> 0, replays |-> 0, completed |-> 0]

\* ------------------------------------------------------------------ tiles
EMPTY    == 0
ROAD     == 1
HOUSE    == 2
BUSINESS == 3
LEISURE  == 4
EATERY   == 5

\* null for a path (findPath returns null) and for an absent cell
NoPath == <<>>
NoCell == <<>>

\* city.grid[y][x], rows and columns counted from 0 in the source
TileAt(c, x, y) == c.grid[y + 1][x + 1]

\* City.getTile
getTile(c, cx, cy) ==
    IF cx < 0 \/ cx >= c.cols \/ cy < 0 \/ cy >= c.rows THEN EMPTY
    ELSE TileAt(c, cx, cy)

\* the result v of a call, and what the code goes on to do with it
With(v, F(_)) == F(v)

\* ------------------------------------------------------------- pathfinding
\* const key = (px, py) => py * cols + px
key(c, px, py) == py * c.cols + px

\* { x: ck % cols, y: Math.floor(ck / cols) }
unkey(c, ck) == <<ck % c.cols, ck \div c.cols>>

dirsNoRight == << <<0, -1>>, <<0, 1>>, <<-1, 0>> >>

\* const dirs = [[0, -1], [0, 1], [-1, 0], [1, 0]]
dirs == << <<0, -1>>, <<0, 1>>, <<-1, 0>>, <<1, 0>> >>

\* the root of cameFrom maps to null
NoKey == 0 - 1

\* a neighbour the search may step on: a road, or the exact destination
WalkableRoadOnly(c, nx, ny, ex, ey) == TileAt(c, nx, ny) = ROAD

WalkableAnyTile(c, nx, ny, ex, ey) == TRUE

Walkable(c, nx, ny, ex, ey) ==
    TileAt(c, nx, ny) = ROAD \/ (nx = ex /\ ny = ey)

\* while (ck !== null) { path.unshift(cell of ck); ck = cameFrom.get(ck) }
RECURSIVE Reconstruct(_, _, _, _)
Reconstruct(c, cameFrom, ck, path) ==
    IF ck = NoKey THEN path
    ELSE Reconstruct(c, cameFrom, cameFrom[ck], <<unkey(c, ck)>> \o path)

\* the for loop over dirs for the dequeued cell (cx, cy), from direction d on
RECURSIVE Expand(_, _, _, _, _, _, _, _)
Expand(c, cx, cy, ex, ey, d, queue, cameFrom) ==
    IF d > Len(dirs) THEN [found |-> FALSE, queue |-> queue, cameFrom |-> cameFrom]
    ELSE
        LET nx == cx + dirs[d][1]
            ny == cy + dirs[d][2]
            k  == key(c, nx, ny)
        IN  IF nx < 0 \/ nx >= c.cols \/ ny < 0 \/ ny >= c.rows
            THEN Expand(c, cx, cy, ex, ey, d + 1, queue, cameFrom)
            ELSE IF k \in DOMAIN cameFrom
            THEN Expand(c, cx, cy, ex, ey, d + 1, queue, cameFrom)
            ELSE IF ~Walkable(c, nx, ny, ex, ey)
            THEN Expand(c, cx, cy, ex, ey, d + 1, queue, cameFrom)
            ELSE
                LET cf == cameFrom @@ (k :> key(c, cx, cy))
                IN  IF nx = ex /\ ny = ey
                    THEN [found |-> TRUE, queue |-> queue, cameFrom |-> cf]
                    ELSE Expand(c, cx, cy, ex, ey, d + 1,
                                Append(queue, <<nx, ny>>), cf)

\* the cell the search dequeues next: queue[head++]
Dequeue(queue, head) == queue[head]

\* while (head < queue.length) { ... }   (head counted from 1 here)
RECURSIVE Search(_, _, _, _, _, _)
Search(c, ex, ey, queue, head, cameFrom) ==
    IF head > Len(queue) THEN NoPath
    ELSE
        LET cur == Dequeue(queue, head)
        IN  With(Expand(c, cur[1], cur[2], ex, ey, 1, queue, cameFrom),
                 LAMBDA r :
                    IF r.found
                    THEN Reconstruct(c, r.cameFrom, key(c, ex, ey), <<>>)
                    ELSE Search(c, ex, ey, r.queue, head + 1, r.cameFrom))

findPath(c, sx, sy, ex, ey) ==
    IF sx = ex /\ sy = ey THEN << <<sx, sy>> >>
    ELSE Search(c, ex, ey, << <<sx, sy>> >>, 1, (key(c, sx, sy) :> NoKey))


\* ------------------------------------------------------------------ units
SIM_DURATION_REAL  == 180   \* seconds
SIM_DURATION_HOURS == 24    \* in-world hours
MinutesPerHour     == 60

\* the simulated day in minutes
SimDuration == SIM_DURATION_HOURS * MinutesPerHour

\* simulated minutes per real second; real time is counted in 1/UnitsPerSec s
\* and positions in 1/UnitsPerSec tiles
UnitsPerSec == SimDuration \div SIM_DURATION_REAL

\* this.lunchStart = Infinity
Infinity == 1000000

\* Math.max(dx, dy) > 20
DELIVERY_DISTANCE == 20

Max(a, b) == IF a > b THEN a ELSE b
Min(a, b) == IF a < b THEN a ELSE b

\* Math.round of a position counted in 1/UnitsPerSec tiles (halves round up)
Round(v) == (2 * v + UnitsPerSec) \div (2 * UnitsPerSec)

\* Math.round(rawLunchTime * 2) / 2: the nearest half hour, in minutes
RoundHalfHour(m) == ((2 * m + 30) \div 60) * 30

\* ------------------------------------------------------------------ Agent
\* City.getNameAt: every building carries a name (here its cell), roads none
getNameAt(c, cx, cy) ==
    IF TileAt(c, cx, cy) \in {HOUSE, BUSINESS, LEISURE, EATERY} THEN <<cx, cy>>
    ELSE NoCell

\* Agent._nameAt
nameAt(c, pos) == IF pos = NoCell THEN NoCell ELSE getNameAt(c, pos[1], pos[2])

\* Math.max(|workplace.x - eatery.x|, |workplace.y - eatery.y|)
Chebyshev(p, q) ==
    Max(IF p[1] > q[1] THEN p[1] - q[1] ELSE q[1] - p[1],
        IF p[2] > q[2] THEN p[2] - q[2] ELSE q[2] - p[2])

\* ordersDelivery is set only inside if (this.takesLunch)
OrdersDelivery(takesLunch, workplace, eatery) ==
    takesLunch /\ Chebyshev(workplace, eatery) > DELIVERY_DISTANCE

\* new Agent(id, home, workplace, leisureSpot, eatery, city); r holds the
\* values the constructor draws with Math.random()
Agent(id, home, workplace, leisureSpot, eatery, r) ==
    LET workStart    == r.workStart
        workDuration == r.workDuration
        takesLunch   == r.lunchDraw /\ eatery # NoCell
        lunchStart   == IF takesLunch
                        THEN RoundHalfHour(workStart + workDuration \div 2)
                        ELSE Infinity
        orders       == OrdersDelivery(takesLunch, workplace, eatery)
    IN  [ id |-> id, home |-> home, workplace |-> workplace,
          leisureSpot |-> leisureSpot, eatery |-> eatery,
          x |-> home[1] * UnitsPerSec, y |-> home[2] * UnitsPerSec,
          state |-> "sleeping",
          path |-> NoPath, pathIndex |-> 0, moveProgress |-> 0,
          speed |-> r.speed,
          workStart |-> workStart,
          wakeUpTime |-> workStart - r.wakeLead,
          workDuration |-> workDuration,
          workEnd |-> workStart + workDuration,
          takesLunch |-> takesLunch,
          lunchDuration |-> r.lunchDuration,
          lunchStart |-> lunchStart,
          lunchEnd |-> IF takesLunch THEN lunchStart + r.lunchDuration ELSE Infinity,
          hadLunch |-> FALSE,
          ordersDelivery |-> orders,
          orderedDelivery |-> FALSE,
          orderTime |-> IF orders THEN lunchStart - r.orderLead ELSE Infinity,
          wantsLeisure |-> r.wantsLeisure,
          leisureDuration |-> r.leisureDuration,
          bedTime |-> r.bedTime,
          curfew |-> r.bedTime - MinutesPerHour,
          log |-> <<>>,
          pathHistory |-> <<>>,
          phase |-> "sleeping",
          leisureDepartureTime |-> Infinity,
          leisureEndTime |-> Infinity,
          \* observation of the latest update call, no field of the source:
          navResult |-> "none",     \* "none" | "found" | "null"
          phaseWrites |-> 0 ]       \* assignments to this.phase in the call

\* a log that takes each new entry at its head
logEventAtHead(a, event, simHours, location) ==
    [a EXCEPT !.log = <<[event |-> event, time |-> simHours,
                         location |-> location]>> \o @]

\* a log whose entries carry no time
logEventUnstamped(a, event, simHours, location) ==
    [a EXCEPT !.log = Append(@, [event |-> event, time |-> 0,
                                 location |-> location])]

\* Agent._logEvent
logEvent(a, event, simHours, location) ==
    [a EXCEPT !.log = Append(@, [event |-> event, time |-> simHours,
                                 location |-> location])]

\* this.phase = p
setPhase(a, p) == [a EXCEPT !.phase = p, !.phaseWrites = @ + 1]

\* Agent._navigateTo
navigateTo(c, a, target) ==
    LET sx == Round(a.x)
        sy == Round(a.y)
    IN  With(findPath(c, sx, sy, target[1], target[2]),
             LAMBDA p :
                [a EXCEPT !.path = p, !.pathIndex = 0, !.moveProgress = 0,
                          !.pathHistory = IF p # NoPath /\ Len(p) > 1
                                          THEN Append(@, [path |-> p,
                                                          tileType |-> getTile(c, sx, sy)])
                                          ELSE @,
                          !.navResult = IF p = NoPath THEN "null" ELSE "found"])

\* Agent._moveAlongPath (and DeliveryDriver._moveAlongPath, the same code):
\* the mover after the call, and whether it has arrived
moveAlongPath(a, deltaSeconds) ==
    IF a.path = NoPath \/ Len(a.path) <= 1 THEN [m |-> a, arrived |-> TRUE]
    ELSE
        LET last  == Len(a.path) - 1
            mp    == a.moveProgress + a.speed * deltaSeconds
            steps == Min(mp \div UnitsPerSec, last - a.pathIndex)
            idx   == a.pathIndex + steps
            rest  == mp - steps * UnitsPerSec
        IN  IF idx >= last
            THEN [m |-> [a EXCEPT !.pathIndex = idx, !.moveProgress = rest,
                                  !.x = a.path[last + 1][1] * UnitsPerSec,
                                  !.y = a.path[last + 1][2] * UnitsPerSec,
                                  !.path = NoPath],
                  arrived |-> TRUE]
            ELSE
                LET curr == a.path[idx + 1]
                    next == a.path[idx + 2]
                    t    == Min(rest, UnitsPerSec)
                IN  [m |-> [a EXCEPT !.pathIndex = idx, !.moveProgress = rest,
                                     !.x = curr[1] * UnitsPerSec + (next[1] - curr[1]) * t,
                                     !.y = curr[2] * UnitsPerSec + (next[2] - curr[2]) * t],
                     arrived |-> FALSE]

\* the leisure estimate of _decideLeisure: 0.5 h rest + duration + 0.5 h commute
estimatedReturnNoBuffer(a, simHours) == simHours + a.leisureDuration

estimatedReturn(a, simHours) == simHours + 30 + a.leisureDuration + 30

\* a decision that uses the wish for leisure up
decideLeisureOnce(a, simHours, rest) ==
    IF a.wantsLeisure /\ a.leisureSpot # NoCell
       /\ estimatedReturn(a, simHours) <= a.curfew
    THEN setPhase([a EXCEPT !.leisureDepartureTime = simHours + rest,
                            !.leisureEndTime = simHours + rest + 12 + a.leisureDuration,
                            !.wantsLeisure = FALSE],
                  "at_home_considering_leisure")
    ELSE setPhase(a, "at_home_evening")

\* Agent._decideLeisure; rest is the drawn 0.3 + Math.random() * 0.4 hours
decideLeisure(a, simHours, rest) ==
    IF a.wantsLeisure /\ a.leisureSpot # NoCell
       /\ estimatedReturn(a, simHours) <= a.curfew
    THEN setPhase([a EXCEPT !.leisureDepartureTime = simHours + rest,
                            !.leisureEndTime = simHours + rest + 12 + a.leisureDuration],
                  "at_home_considering_leisure")
    ELSE setPhase(a, "at_home_evening")

\* an else branch that leaves the actor on the cell it is on
snapHomeInPlace(c, n, simHours, nextPhase, rest) ==
    LET h == logEvent([n EXCEPT !.state = "home"],
                      "Arrived home", simHours, nameAt(c, n.home))
    IN  IF nextPhase = "commuting_home_from_work"
        THEN decideLeisure(h, simHours, rest)
        ELSE setPhase(h, "at_home_evening")

\* the else branch of _headHome: the actor is set on its home cell
snapHome(c, n, simHours, nextPhase, rest) ==
    LET h == logEvent([n EXCEPT !.x = n.home[1] * UnitsPerSec,
                                !.y = n.home[2] * UnitsPerSec,
                                !.state = "home"],
                      "Arrived home", simHours, nameAt(c, n.home))
    IN  IF nextPhase = "commuting_home_from_work"
        THEN decideLeisure(h, simHours, rest)
        ELSE setPhase(h, "at_home_evening")

\* _headHome with the travel phase fixed, whatever nextPhase is
headHomeFixedPhase(c, a, simHours, nextPhase, rest) ==
    With(navigateTo(c, a, a.home),
         LAMBDA n :
            IF n.path # NoPath
            THEN [setPhase(n, "commuting_home_from_work") EXCEPT !.state = "traveling"]
            ELSE snapHome(c, n, simHours, nextPhase, rest))

\* _headHome with the phase set before the route is looked at
headHomeEager(c, a, simHours, nextPhase, rest) ==
    With(setPhase(navigateTo(c, a, a.home), nextPhase),
         LAMBDA n :
            IF n.path # NoPath
            THEN [n EXCEPT !.state = "traveling"]
            ELSE snapHome(c, n, simHours, nextPhase, rest))

\* _headHome that leaves the actor where it is when there is no route
headHomeNoSnap(c, a, simHours, nextPhase, rest) ==
    With(navigateTo(c, a, a.home),
         LAMBDA n :
            IF n.path # NoPath
            THEN [setPhase(n, nextPhase) EXCEPT !.state = "traveling"]
            ELSE IF nextPhase = "commuting_home_from_work"
            THEN decideLeisure(logEvent([n EXCEPT !.state = "home"], "Arrived home",
                                        simHours, nameAt(c, n.home)),
                               simHours, rest)
            ELSE setPhase(logEvent([n EXCEPT !.state = "home"], "Arrived home",
                                   simHours, nameAt(c, n.home)),
                          "at_home_evening"))

\* _headHome that sets the phase and leaves the visible state
headHomeKeepState(c, a, simHours, nextPhase, rest) ==
    With(navigateTo(c, a, a.home),
         LAMBDA n :
            IF n.path # NoPath
            THEN setPhase(n, nextPhase)
            ELSE snapHome(c, n, simHours, nextPhase, rest))

\* Agent._headHome
headHome(c, a, simHours, nextPhase, rest) ==
    With(navigateTo(c, a, a.home),
         LAMBDA n :
            IF n.path # NoPath
            THEN [setPhase(n, nextPhase) EXCEPT !.state = "traveling"]
            ELSE snapHome(c, n, simHours, nextPhase, rest))

\* if (simHours >= this.workEnd && !this.path)
returnEscape(a, simHours) == simHours >= a.workEnd /\ a.path = NoPath

\* an at_work case that goes to lunch at any call between lunchStart and
\* workEnd, whether lunch was had or not
updateAtWorkLunchAgain(c, a0, simHours, rest) ==
    LET a == IF a0.ordersDelivery /\ ~a0.orderedDelivery /\ simHours >= a0.orderTime
             THEN logEvent([a0 EXCEPT !.orderedDelivery = TRUE],
                           "Ordered delivery", simHours, nameAt(c, a0.eatery))
             ELSE a0
    IN  IF a.takesLunch /\ simHours >= a.lunchStart /\ simHours < a.workEnd
        THEN IF a.ordersDelivery THEN [a EXCEPT !.hadLunch = TRUE]
             ELSE
                With(navigateTo(c, logEvent([a EXCEPT !.hadLunch = TRUE],
                                            "Left for lunch", simHours,
                                            nameAt(c, a.workplace)),
                                a.eatery),
                     LAMBDA n :
                        IF n.path # NoPath
                        THEN [setPhase(n, "commuting_to_lunch") EXCEPT !.state = "traveling"]
                        ELSE n)
        ELSE IF simHours >= a.workEnd
        THEN headHome(c, logEvent(a, "Left work", simHours, nameAt(c, a.workplace)),
                      simHours, "commuting_home_from_work", rest)
        ELSE a

\* case 'at_work' of Agent.update
updateAtWork(c, a0, simHours, rest) ==
    LET a == IF a0.ordersDelivery /\ ~a0.orderedDelivery /\ simHours >= a0.orderTime
             THEN logEvent([a0 EXCEPT !.orderedDelivery = TRUE],
                           "Ordered delivery", simHours, nameAt(c, a0.eatery))
             ELSE a0
    IN  IF ~a.hadLunch /\ a.takesLunch /\ simHours >= a.lunchStart
        THEN IF a.ordersDelivery THEN [a EXCEPT !.hadLunch = TRUE]
             ELSE
                With(navigateTo(c, logEvent([a EXCEPT !.hadLunch = TRUE],
                                            "Left for lunch", simHours,
                                            nameAt(c, a.workplace)),
                                a.eatery),
                     LAMBDA n :
                        IF n.path # NoPath
                        THEN [setPhase(n, "commuting_to_lunch") EXCEPT !.state = "traveling"]
                        ELSE n)
        ELSE IF simHours >= a.workEnd
        THEN headHome(c, logEvent(a, "Left work", simHours, nameAt(c, a.workplace)),
                      simHours, "commuting_home_from_work", rest)
        ELSE a

\* the three lunch cases of Agent.update
updateLunch(c, a, simHours, deltaSeconds, rest) ==
    CASE a.phase = "commuting_to_lunch" ->
            IF simHours >= a.workEnd
            THEN headHome(c, logEvent(a, "Left work", simHours, NoCell),
                          simHours, "commuting_home_from_work", rest)
            ELSE
                With(moveAlongPath(a, deltaSeconds),
                     LAMBDA mv :
                        IF mv.arrived
                        THEN logEvent([setPhase(mv.m, "at_lunch") EXCEPT !.state = "leisure"],
                                      "Arrived eatery", simHours, nameAt(c, a.eatery))
                        ELSE mv.m)
      [] a.phase = "at_lunch" ->
            IF simHours >= a.workEnd
            THEN headHome(c, logEvent(a, "Left eatery (late)", simHours,
                                      nameAt(c, a.eatery)),
                          simHours, "commuting_home_from_work", rest)
            ELSE IF simHours >= a.lunchEnd
            THEN
                With(navigateTo(c, logEvent(a, "Left eatery", simHours,
                                            nameAt(c, a.eatery)),
                                a.workplace),
                     LAMBDA n :
                        IF n.path # NoPath
                        THEN [setPhase(n, "returning_from_lunch") EXCEPT !.state = "traveling"]
                        ELSE [setPhase(n, "at_work") EXCEPT !.state = "working"])
            ELSE a
      [] a.phase = "returning_from_lunch" ->
            IF returnEscape(a, simHours)
            THEN headHome(c, logEvent(a, "Left work", simHours, NoCell),
                          simHours, "commuting_home_from_work", rest)
            ELSE
                With(moveAlongPath(a, deltaSeconds),
                     LAMBDA mv :
                        IF mv.arrived
                        THEN logEvent([setPhase(mv.m, "at_work") EXCEPT !.state = "working"],
                                      "Returned to work", simHours, nameAt(c, a.workplace))
                        ELSE mv.m)

\* a morning in which the actor leaves for work in the call after it woke
updateMorningEarlyStart(c, a, simHours, deltaSeconds) ==
    CASE a.phase = "sleeping" ->
            IF simHours >= a.wakeUpTime
            THEN logEvent([setPhase(a, "waiting_for_work") EXCEPT !.state = "home"],
                          "Wake up", simHours, nameAt(c, a.home))
            ELSE a
      [] a.phase = "waiting_for_work" ->
            With(navigateTo(c, a, a.workplace),
                 LAMBDA n :
                    IF n.path # NoPath
                    THEN logEvent([setPhase(n, "commuting_to_work")
                                      EXCEPT !.state = "traveling"],
                                  "Left home", simHours, nameAt(c, a.home))
                    ELSE n)
      [] a.phase = "commuting_to_work" ->
            With(moveAlongPath(a, deltaSeconds),
                 LAMBDA mv :
                    IF mv.arrived
                    THEN logEvent([setPhase(mv.m, "at_work") EXCEPT !.state = "working"],
                                  "Arrived work", simHours, nameAt(c, a.workplace))
                    ELSE mv.m)

\* a morning in which the actor wakes without a log entry
updateMorningSilentWake(c, a, simHours, deltaSeconds) ==
    CASE a.phase = "sleeping" ->
            IF simHours >= a.wakeUpTime
            THEN [setPhase(a, "waiting_for_work") EXCEPT !.state = "home"]
            ELSE a
      [] a.phase = "waiting_for_work" ->
            IF simHours >= a.workStart
            THEN
                With(navigateTo(c, a, a.workplace),
                     LAMBDA n :
                        IF n.path # NoPath
                        THEN logEvent([setPhase(n, "commuting_to_work")
                                          EXCEPT !.state = "traveling"],
                                      "Left home", simHours, nameAt(c, a.home))
                        ELSE n)
            ELSE a
      [] a.phase = "commuting_to_work" ->
            With(moveAlongPath(a, deltaSeconds),
                 LAMBDA mv :
                    IF mv.arrived
                    THEN logEvent([setPhase(mv.m, "at_work") EXCEPT !.state = "working"],
                                  "Arrived work", simHours, nameAt(c, a.workplace))
                    ELSE mv.m)

\* the morning cases of Agent.update
updateMorning(c, a, simHours, deltaSeconds) ==
    CASE a.phase = "sleeping" ->
            IF simHours >= a.wakeUpTime
            THEN logEvent([setPhase(a, "waiting_for_work") EXCEPT !.state = "home"],
                          "Wake up", simHours, nameAt(c, a.home))
            ELSE a
      [] a.phase = "waiting_for_work" ->
            IF simHours >= a.workStart
            THEN
                With(navigateTo(c, a, a.workplace),
                     LAMBDA n :
                        IF n.path # NoPath
                        THEN logEvent([setPhase(n, "commuting_to_work")
                                          EXCEPT !.state = "traveling"],
                                      "Left home", simHours, nameAt(c, a.home))
                        ELSE n)
            ELSE a
      [] a.phase = "commuting_to_work" ->
            With(moveAlongPath(a, deltaSeconds),
                 LAMBDA mv :
                    IF mv.arrived
                    THEN logEvent([setPhase(mv.m, "at_work") EXCEPT !.state = "working"],
                                  "Arrived work", simHours, nameAt(c, a.workplace))
                    ELSE mv.m)

\* the evening cases of Agent.update
updateEvening(c, a, simHours, deltaSeconds, rest) ==
    CASE a.phase = "commuting_home_from_work" ->
            With(moveAlongPath(a, deltaSeconds),
                 LAMBDA mv :
                    IF mv.arrived
                    THEN decideLeisure(logEvent([mv.m EXCEPT !.state = "home"],
                                                "Arrived home", simHours,
                                                nameAt(c, a.home)),
                                       simHours, rest)
                    ELSE mv.m)
      [] a.phase = "at_home_considering_leisure" ->
            IF simHours >= a.leisureDepartureTime
            THEN
                With(navigateTo(c, a, a.leisureSpot),
                     LAMBDA n :
                        IF n.path # NoPath
                        THEN logEvent([setPhase(n, "commuting_to_leisure")
                                          EXCEPT !.state = "traveling"],
                                      "Left home", simHours, nameAt(c, a.home))
                        ELSE setPhase(n, "at_home_evening"))
            ELSE a
      [] a.phase = "commuting_to_leisure" ->
            With(moveAlongPath(a, deltaSeconds),
                 LAMBDA mv :
                    IF mv.arrived
                    THEN logEvent([setPhase(mv.m, "at_leisure") EXCEPT !.state = "leisure"],
                                  "Arrived leisure", simHours, nameAt(c, a.leisureSpot))
                    ELSE mv.m)
      [] a.phase = "at_leisure" ->
            IF simHours >= a.leisureEndTime
            THEN headHome(c, logEvent(a, "Left leisure", simHours,
                                      nameAt(c, a.leisureSpot)),
                          simHours, "commuting_home_from_leisure", rest)
            ELSE a
      [] a.phase = "commuting_home_from_leisure" ->
            With(moveAlongPath(a, deltaSeconds),
                 LAMBDA mv :
                    IF mv.arrived
                    THEN logEvent([setPhase(mv.m, "at_home_evening") EXCEPT !.state = "home"],
                                  "Arrived home", simHours, nameAt(c, a.home))
                    ELSE mv.m)
      [] a.phase = "at_home_evening" ->
            IF simHours >= a.bedTime
            THEN logEvent([setPhase(a, "asleep_night") EXCEPT !.state = "sleeping"],
                          "Went to sleep", simHours, nameAt(c, a.home))
            ELSE a

MorningPhases == {"sleeping", "waiting_for_work", "commuting_to_work"}
LunchPhases   == {"commuting_to_lunch", "at_lunch", "returning_from_lunch"}
EveningPhases == {"commuting_home_from_work", "at_home_considering_leisure",
                  "commuting_to_leisure", "at_leisure",
                  "commuting_home_from_leisure", "at_home_evening"}

\* Agent.update(simHours, deltaSeconds): switch (this.phase); asleep_night has
\* no case.  rest is the value _decideLeisure draws if it is reached.
update(c, a0, simHours, deltaSeconds, rest) ==
    LET a == [a0 EXCEPT !.navResult = "none", !.phaseWrites = 0]
    IN  CASE a.phase \in MorningPhases -> updateMorning(c, a, simHours, deltaSeconds)
          [] a.phase = "at_work"       -> updateAtWork(c, a, simHours, rest)
          [] a.phase \in LunchPhases   -> updateLunch(c, a, simHours, deltaSeconds, rest)
          [] a.phase \in EveningPhases -> updateEvening(c, a, simHours, deltaSeconds, rest)
          [] OTHER                     -> a

\* -------------------------------------------------------- DeliveryDriver
\* a constructor that schedules the courier whether or not a route exists
DeliveryDriverAlwaysWaiting(c, eatery, business, owner, ownerAgent, speed) ==
    With(findPath(c, eatery[1], eatery[2], business[1], business[2]),
         LAMBDA p :
            [ eatery |-> eatery, business |-> business, agent |-> owner,
              x |-> eatery[1] * UnitsPerSec, y |-> eatery[2] * UnitsPerSec,
              speed |-> speed,
              phase |-> "waiting",
              path |-> NoPath, pathIndex |-> 0, moveProgress |-> 0,
              dropOffEnd |-> 0,
              deliveryPath |-> p,
              departureNum |-> Max(0, ownerAgent.lunchStart * speed
                                        - (Len(p) - 1) * UnitsPerSec) ])

\* new DeliveryDriver(eatery, business, agent, city, simHoursPerSec); owner is
\* the index of the ordering agent in Simulation.agents, speed the drawn speed.
\* departureTime = max(0, lunchStart - steps / speed * simHoursPerSec) is kept
\* multiplied by speed (departureNum), so that it stays a whole number.
DeliveryDriver(c, eatery, business, owner, ownerAgent, speed) ==
    With(findPath(c, eatery[1], eatery[2], business[1], business[2]),
         LAMBDA p :
            LET ok == p # NoPath /\ Len(p) > 1
            IN  [ eatery |-> eatery, business |-> business, agent |-> owner,
                  x |-> eatery[1] * UnitsPerSec, y |-> eatery[2] * UnitsPerSec,
                  speed |-> speed,
                  phase |-> IF ok THEN "waiting" ELSE "done",
                  path |-> NoPath, pathIndex |-> 0, moveProgress |-> 0,
                  dropOffEnd |-> 0,
                  deliveryPath |-> p,
                  departureNum |-> IF ok
                                   THEN Max(0, ownerAgent.lunchStart * speed
                                                 - (Len(p) - 1) * UnitsPerSec)
                                   ELSE Infinity * speed ])

\* a courier that is let go at the first tick
departedAtOnce(d, simHours) == simHours >= 0

\* simHours >= this.departureTime
departed(d, simHours) == simHours * d.speed >= d.departureNum

\* a courier that finds no route
driverNavigateToNowhere(c, d, target) ==
    [d EXCEPT !.path = NoPath, !.pathIndex = 0, !.moveProgress = 0]

\* DeliveryDriver._navigateTo
driverNavigateTo(c, d, target) ==
    [d EXCEPT !.path = findPath(c, Round(d.x), Round(d.y), target[1], target[2]),
              !.pathIndex = 0, !.moveProgress = 0]

\* an update whose courier goes back on standby at the eatery
driverUpdateRestart(c, d, simHours, deltaSeconds) ==
    CASE d.phase = "waiting" ->
            IF departed(d, simHours)
            THEN [d |-> [d EXCEPT !.path = d.deliveryPath, !.pathIndex = 0,
                                  !.moveProgress = 0, !.deliveryPath = NoPath,
                                  !.phase = "delivering"],
                  events |-> <<>>]
            ELSE [d |-> d, events |-> <<>>]
      [] d.phase = "delivering" ->
            With(moveAlongPath(d, deltaSeconds),
                 LAMBDA mv :
                    IF mv.arrived
                    THEN [d |-> [mv.m EXCEPT !.x = d.business[1] * UnitsPerSec,
                                             !.y = d.business[2] * UnitsPerSec,
                                             !.dropOffEnd = simHours + 10,
                                             !.phase = "dropping_off"],
                          events |-> << [event |-> "Delivery by", time |-> simHours,
                                         location |-> d.eatery] >>]
                    ELSE [d |-> mv.m, events |-> <<>>])
      [] d.phase = "dropping_off" ->
            IF simHours >= d.dropOffEnd
            THEN With(driverNavigateTo(c, d, d.eatery),
                      LAMBDA n :
                         [d |-> [n EXCEPT !.phase = IF n.path # NoPath THEN "returning"
                                                    ELSE "done"],
                          events |-> <<>>])
            ELSE [d |-> d, events |-> <<>>]
      [] d.phase = "returning" ->
            With(moveAlongPath(d, deltaSeconds),
                 LAMBDA mv :
                    [d |-> IF mv.arrived THEN [mv.m EXCEPT !.phase = "waiting"] ELSE mv.m,
                     events |-> <<>>])
      [] OTHER -> [d |-> d, events |-> <<>>]

\* a drop-off that takes no time
dropOffOverAtOnce(d, simHours) == simHours >= 0

\* simHours >= this._dropOffEnd
dropOffOver(d, simHours) == simHours >= d.dropOffEnd

\* DeliveryDriver.update(simHours, deltaSeconds): the driver after the call and
\* the events it appended to its agent's log
driverUpdate(c, d, simHours, deltaSeconds) ==
    CASE d.phase = "waiting" ->
            IF departed(d, simHours)
            THEN [d |-> [d EXCEPT !.path = d.deliveryPath, !.pathIndex = 0,
                                  !.moveProgress = 0, !.deliveryPath = NoPath,
                                  !.phase = "delivering"],
                  events |-> <<>>]
            ELSE [d |-> d, events |-> <<>>]
      [] d.phase = "delivering" ->
            With(moveAlongPath(d, deltaSeconds),
                 LAMBDA mv :
                    IF mv.arrived
                    THEN [d |-> [mv.m EXCEPT !.x = d.business[1] * UnitsPerSec,
                                             !.y = d.business[2] * UnitsPerSec,
                                             !.dropOffEnd = simHours + 10,
                                             !.phase = "dropping_off"],
                          events |-> << [event |-> "Delivery by", time |-> simHours,
                                         location |-> d.eatery] >>]
                    ELSE [d |-> mv.m, events |-> <<>>])
      [] d.phase = "dropping_off" ->
            IF dropOffOver(d, simHours)
            THEN With(driverNavigateTo(c, d, d.eatery),
                      LAMBDA n :
                         [d |-> [n EXCEPT !.phase = IF n.path # NoPath THEN "returning"
                                                    ELSE "done"],
                          events |-> <<>>])
            ELSE [d |-> d, events |-> <<>>]
      [] d.phase = "returning" ->
            With(moveAlongPath(d, deltaSeconds),
                 LAMBDA mv :
                    [d |-> IF mv.arrived THEN [mv.m EXCEPT !.phase = "done"] ELSE mv.m,
                     events |-> <<>>])
      [] OTHER -> [d |-> d, events |-> <<>>]

\* ------------------------------------------------------------ Simulation
\* no findPath call of its own is under way
NoRoute ==
    [city |-> [cols |-> 0, rows |-> 0, grid |-> <<>>], sx |-> 0, sy |-> 0,
     ex |-> 0, ey |-> 0, called |-> FALSE, path |-> NoPath,
     calledBack |-> FALSE, back |-> NoPath]

MAX_AGENTS == 150

\* a City: the grid with its building registries
MakeCity(cols, rows, roads, houses, businesses, leisureSpots, eateries) ==
    LET In(seq, p) == \E i \in DOMAIN seq : seq[i] = p
    IN  [ cols |-> cols, rows |-> rows,
          grid |-> [yy \in 1..rows |-> [xx \in 1..cols |->
                      LET p == <<xx - 1, yy - 1>>
                      IN  IF p \in roads THEN ROAD
                          ELSE IF In(houses, p) THEN HOUSE
                          ELSE IF In(businesses, p) THEN BUSINESS
                          ELSE IF In(leisureSpots, p) THEN LEISURE
                          ELSE IF In(eateries, p) THEN EATERY
                          ELSE EMPTY]],
          houses |-> houses, businesses |-> businesses,
          leisureSpots |-> leisureSpots, eateries |-> eateries ]

\* a full-width road row with buildings on both sides, as City.generate lays
\* them out; one business is farther than DELIVERY_DISTANCE from the eatery
StripCols == DELIVERY_DISTANCE + 3

Strip ==
    MakeCity(StripCols, 3, { <<xx, 1>> : xx \in 0..(StripCols - 1) },
             << <<0, 0>> >>,
             << <<StripCols - 1, 0>>, <<3, 0>> >>,
             << <<2, 2>> >>,
             << <<1, 2>> >>)

\* a road row cut in two by the business at (6,1): the house and one business
\* on the left part, the eatery, the leisure spot and one business on the right
Split ==
    MakeCity(13, 3, { <<xx, 1>> : xx \in (0..12) \ {6} },
             << <<0, 0>> >>,
             << <<6, 1>>, <<3, 0>>, <<10, 0>> >>,
             << <<8, 0>> >>,
             << <<9, 2>> >>)

\* the same strip with no leisure spot and no eatery
Bare ==
    MakeCity(5, 3, { <<xx, 1>> : xx \in 0..4 },
             << <<0, 0>> >>, << <<3, 0>> >>, <<>>, <<>>)

\* a long road row cut in two by the business at (4,1): both businesses are
\* reached from the house, and only the one at (4,1) from the eatery, which is
\* farther than DELIVERY_DISTANCE from either
CutCols == DELIVERY_DISTANCE + 6

Cut ==
    MakeCity(CutCols, 3, { <<xx, 1>> : xx \in (0..(CutCols - 1)) \ {4} },
             << <<0, 0>> >>,
             << <<4, 1>>, <<3, 0>> >>,
             <<>>,
             << <<CutCols - 1, 2>> >>)

\* two houses on a strip whose only business is farther than
\* DELIVERY_DISTANCE from the eatery
Pair ==
    MakeCity(StripCols, 3, { <<xx, 1>> : xx \in 0..(StripCols - 1) },
             << <<0, 0>>, <<5, 0>> >>,
             << <<StripCols - 1, 0>> >>,
             << <<2, 2>> >>,
             << <<1, 2>> >>)

\* a strip with businesses and no house
NoHomes ==
    MakeCity(5, 3, { <<xx, 1>> : xx \in 0..4 },
             <<>>, << <<3, 0>> >>, << <<2, 2>> >>, << <<1, 2>> >>)

\* a strip with houses and no business
NoWork ==
    MakeCity(5, 3, { <<xx, 1>> : xx \in 0..4 },
             << <<0, 0>>, <<3, 0>> >>, <<>>, << <<2, 2>> >>, << <<1, 2>> >>)

Cities == {"Strip", "Split", "Bare", "Cut"}

\* the City a reference stands for (cols, rows, grid, building registries)
CityOf(ref) ==
    CASE ref = "Strip" -> Strip
      [] ref = "Split" -> Split
      [] ref = "Cut"   -> Cut
      [] ref = "Pair"  -> Pair
      [] ref = "NoHomes" -> NoHomes
      [] ref = "NoWork"  -> NoWork
      [] OTHER         -> Bare

\* the values new Agent draws with Math.random(), in minutes and tiles/second
Draws ==
    [ speed : {5, 7}, workStart : {480}, wakeLead : {30}, workDuration : {420},
      lunchDraw : BOOLEAN, lunchDuration : {30}, orderLead : {30},
      wantsLeisure : BOOLEAN, leisureDuration : {60, 180}, bedTime : {1200} ]

\* 7 + Math.random() * 2
DriverSpeeds == {8}

\* 0.3 + Math.random() * 0.4 hours
RestChoices == {18, 30}

\* one of the registry's cells, or null when the registry is empty
Pick(seq) == IF Len(seq) = 0 THEN {NoCell} ELSE { seq[i] : i \in DOMAIN seq }

\* for (const agent of this.agents) if (agent.ordersDelivery) drivers.push(...)
RECURSIVE createDrivers(_, _, _, _)
createDrivers(c, ags, i, speeds) ==
    IF i > Len(ags) THEN <<>>
    ELSE (IF ags[i].ordersDelivery
          THEN << DeliveryDriver(c, ags[i].eatery, ags[i].workplace, i, ags[i],
                                 speeds[i]) >>
          ELSE <<>>)
         \o createDrivers(c, ags, i + 1, speeds)

\* Simulation._createAgents: one agent per house (the cities here have fewer
\* than MAX_AGENTS houses, so the pool is all of them), then the drivers
createAgents(c, picks) ==
    IF Len(c.houses) = 0 \/ Len(c.businesses) = 0 THEN <<>>
    ELSE [ i \in 1..Min(Len(c.houses), MAX_AGENTS) |->
             Agent(i - 1, c.houses[i], picks[i].workplace, picks[i].leisureSpot,
                   picks[i].eatery, picks[i].r) ]

\* the state Simulation.start leaves: agents and drivers created, the clock at
\* 0 (its first _loop call, at simHours 0 with deltaSeconds 0, changes nothing)
Init ==
    /\ city \in Cities
    /\ \E picks \in [ 1..Len(CityOf(city).houses) ->
                        [ workplace : Pick(CityOf(city).businesses),
                          leisureSpot : Pick(CityOf(city).leisureSpots),
                          eatery : Pick(CityOf(city).eateries),
                          r : Draws ] ],
          speeds \in [ 1..Len(CityOf(city).houses) -> DriverSpeeds ] :
          /\ agents = createAgents(CityOf(city), picks)
          /\ drivers = createDrivers(CityOf(city), createAgents(CityOf(city), picks),
                                    1, speeds)
    /\ clock = 0
    /\ running = TRUE
    /\ stalls = 0
    /\ route = NoRoute
    /\ Constructed

\* a driver loop that writes each delivery to the log of the last agent
RECURSIVE updateDriversLastLog(_, _, _, _, _, _)
updateDriversLastLog(c, ags, drs, i, simHours, deltaSeconds) ==
    IF i > Len(drs) THEN [agents |-> ags, drivers |-> drs]
    ELSE
        With(driverUpdate(c, drs[i], simHours, deltaSeconds),
             LAMBDA u :
                updateDriversLastLog(c, [ags EXCEPT ![Len(ags)].log = @ \o u.events],
                                     [drs EXCEPT ![i] = u.d], i + 1, simHours,
                                     deltaSeconds))

\* for (const driver of this.drivers) driver.update(simHours, deltaSeconds),
\* from driver i on; a driver's events go to the log of its agent
RECURSIVE updateDrivers(_, _, _, _, _, _)
updateDrivers(c, ags, drs, i, simHours, deltaSeconds) ==
    IF i > Len(drs) THEN [agents |-> ags, drivers |-> drs]
    ELSE
        With(driverUpdate(c, drs[i], simHours, deltaSeconds),
             LAMBDA u :
                updateDrivers(c, [ags EXCEPT ![drs[i].agent].log = @ \o u.events],
                              [drs EXCEPT ![i] = u.d], i + 1, simHours, deltaSeconds))

\* ---- the frames the browser grants
\* frames in a row come FrameGap simulated minutes apart
FrameGap == 2

\* at most MaxStalls times in a run the next frame comes late (a hidden tab)
MaxStalls == 1

\* something is under way that a frame moves
Moving ==
    \/ \E i \in DOMAIN agents : agents[i].path # NoPath
    \/ \E j \in DOMAIN drivers : drivers[j].phase \in {"delivering", "returning"}

\* the simulated times at which some comparison of update changes its value
Thresholds ==
    UNION { { agents[i].wakeUpTime, agents[i].workStart, agents[i].orderTime,
              agents[i].lunchStart, agents[i].lunchEnd, agents[i].workEnd,
              agents[i].leisureDepartureTime, agents[i].leisureEndTime,
              agents[i].bedTime } : i \in DOMAIN agents }
    \cup UNION { { (drivers[j].departureNum + drivers[j].speed - 1) \div drivers[j].speed,
                   drivers[j].dropOffEnd } : j \in DOMAIN drivers }
    \cup {SimDuration}

Later == { t \in Thresholds : t > clock /\ t <= SimDuration }

Earliest(S) == CHOOSE t \in S : \A u \in S : t <= u

\* a comparison of update is true already and the call that acts on it is
\* still to come (the frame before came late, or an arrival came after it)
Pending ==
    \/ \E i \in DOMAIN agents :
          LET a == agents[i]
          IN  \/ a.phase = "sleeping" /\ clock >= a.wakeUpTime
              \/ a.phase = "waiting_for_work" /\ clock >= a.workStart
                    /\ a.navResult # "null"
              \/ a.phase = "at_work"
                    /\ \/ a.ordersDelivery /\ ~a.orderedDelivery /\ clock >= a.orderTime
                       \/ a.takesLunch /\ ~a.hadLunch /\ clock >= a.lunchStart
                       \/ clock >= a.workEnd
              \/ a.phase = "at_lunch" /\ (clock >= a.workEnd \/ clock >= a.lunchEnd)
              \/ a.phase = "at_home_considering_leisure"
                    /\ clock >= a.leisureDepartureTime
              \/ a.phase = "at_leisure" /\ clock >= a.leisureEndTime
              \/ a.phase = "at_home_evening" /\ clock >= a.bedTime
    \/ \E j \in DOMAIN drivers :
          \/ drivers[j].phase = "waiting" /\ departed(drivers[j], clock)
          \/ drivers[j].phase = "dropping_off" /\ clock >= drivers[j].dropOffEnd

\* the time of the next frame when none is late: FrameGap on while something
\* moves or is pending, else the next time at which anything can change
NextFrame == IF Moving \/ Pending THEN clock + FrameGap ELSE Earliest(Later)

\* an end condition that lets the tick at the budget itself pass
endedLate(t) == t > SimDuration

\* if (elapsedTotal >= SIM_DURATION_REAL), with elapsedTotal as simulated time
ended(t) == t >= SimDuration

\* update loops in the other order: every driver, then every agent
advanceDriversFirst(c, ags, drs, simHours, deltaSeconds, rests) ==
    With(updateDrivers(c, ags, drs, 1, simHours, deltaSeconds),
         LAMBDA r :
            [ agents |-> [ i \in DOMAIN ags |->
                             update(c, r.agents[i], simHours, deltaSeconds, rests[i]) ],
              drivers |-> r.drivers ])

\* the two update loops of _loop: every agent, then every driver
advance(c, ags, drs, simHours, deltaSeconds, rests) ==
    updateDrivers(c,
                  [ i \in DOMAIN ags |->
                      update(c, ags[i], simHours, deltaSeconds, rests[i]) ],
                  drs, 1, simHours, deltaSeconds)

\* Simulation._loop at simulated time t, deltaSeconds after the frame before;
\* rests[i] is what agent i's _decideLeisure draws if the call reaches it
Loop(t, deltaSeconds, rests) ==
    IF ended(t)
    THEN /\ running' = FALSE
         /\ clock' = SimDuration
         /\ UNCHANGED <<agents, drivers>>
    ELSE With(advance(CityOf(city), agents, drivers, t, deltaSeconds, rests),
              LAMBDA r :
                 /\ agents' = r.agents
                 /\ drivers' = r.drivers
                 /\ clock' = t
                 /\ UNCHANGED running)

\* a frame on time
LoopFrame ==
    /\ running
    /\ \E rests \in [DOMAIN agents -> RestChoices] :
          Loop(NextFrame, NextFrame - clock, rests)
    /\ UNCHANGED <<city, stalls, route>>
    /\ UNCHANGED controls

\* a frame that comes late
LoopStalled ==
    /\ running
    /\ stalls < MaxStalls
    /\ \E t \in Later \ {NextFrame} :
          \E rests \in [DOMAIN agents -> RestChoices] :
              Loop(t, t - clock, rests)
    /\ stalls' = stalls + 1
    /\ UNCHANGED <<city, route>>
    /\ UNCHANGED controls

\* the frame resume() runs at once: no real time since lastFrameTime
LoopResumed ==
    /\ running
    /\ \E rests \in [DOMAIN agents -> RestChoices] :
          Loop(clock, 0, rests)
    /\ UNCHANGED <<city, stalls, route>>
    /\ UNCHANGED controls

Next == LoopFrame \/ LoopStalled \/ LoopResumed

Spec == Init /\ [][Next]_vars

\* frames on time only: no frame of the run comes late
NextSteady == LoopFrame \/ LoopResumed

SpecSteady == Init /\ [][NextSteady]_vars

\* ------------------------------------------- Simulation: the controls
\* start, pause, resume, replay and the two requestAnimationFrame callbacks,
\* with the frame cache and the timers they work on.  Every handler reads
\* performance.now(); the reading is drawn from what the handler may find.

\* the real time since the reading before, as each handler may find it
StartGaps   == {8}
FrameSteps  == {360, 720}
PauseDelays == {120}
PauseSpans  == {240}
ReplayGaps  == {8}
ReplaySteps == {720}

\* the calls of start, pause and replay that are followed past their guard
MaxRuns    == 1
MaxPauses  == 1
MaxReplays == 2

ControlCities == {"Pair", "NoHomes", "NoWork"}

\* the draws of new Agent in those runs
ControlDraws ==
    { r \in Draws : r.speed = 5 /\ r.wantsLeisure /\ r.leisureDuration = 60 }

\* what _createAgents picks for the agents of those runs: of two agents the
\* first takes lunch and the second does not, so that a run has a courier and
\* fewer couriers than agents
ControlPicks(c) ==
    { picks \in [ 1..Len(c.houses) ->
                    [ workplace : Pick(c.businesses), leisureSpot : Pick(c.leisureSpots),
                      eatery : Pick(c.eateries), r : ControlDraws ] ] :
        Len(c.houses) = 2 => (picks[1].r.lunchDraw /\ ~picks[2].r.lunchDraw) }

\* what _decideLeisure draws in those runs
ControlRests == {18}

\* (now - this.startTime - this._pausedTotal) / 1000
elapsedTotal(tm) == tm.now - tm.startTime - tm.pausedTotal

\* (now - this.lastFrameTime) / 1000
deltaSeconds(tm) == tm.now - tm.lastFrameTime

\* (elapsedTotal / SIM_DURATION_REAL) * SIM_DURATION_HOURS, in minutes
simHoursAt(elapsed) ==
    (elapsed * SIM_DURATION_HOURS * MinutesPerHour) \div (SIM_DURATION_REAL * UnitsPerSec)

\* a _recordFrame that stamps the frame with the time left of the run
recordFrameTimeLeft(realTime, simHours, ags, drs) ==
    [ realTime |-> SIM_DURATION_REAL * UnitsPerSec - realTime,
      simHours |-> SimDuration - simHours,
      agents |-> [ i \in DOMAIN ags |->
                     [x |-> ags[i].x, y |-> ags[i].y, state |-> ags[i].state,
                      id |-> ags[i].id] ],
      drivers |-> [ j \in DOMAIN drs |->
                      [x |-> drs[j].x, y |-> drs[j].y, phase |-> drs[j].phase,
                       agentId |-> ags[drs[j].agent].id] ] ]

\* Simulation._recordFrame: the frame it pushes
recordFrame(realTime, simHours, ags, drs) ==
    [ realTime |-> realTime, simHours |-> simHours,
      agents |-> [ i \in DOMAIN ags |->
                     [x |-> ags[i].x, y |-> ags[i].y, state |-> ags[i].state,
                      id |-> ags[i].id] ],
      drivers |-> [ j \in DOMAIN drs |->
                      [x |-> drs[j].x, y |-> drs[j].y, phase |-> drs[j].phase,
                       agentId |-> ags[drs[j].agent].id] ] ]

\* this.agents.find(a => a.id === id): the index of the first match, 0 if none
FindAgent(ags, id) ==
    IF \E i \in DOMAIN ags : ags[i].id = id
    THEN CHOOSE i \in DOMAIN ags :
            /\ ags[i].id = id
            /\ \A k \in DOMAIN ags : ags[k].id = id => i <= k
    ELSE 0

\* for (const snap of frame.agents), from snap k on
RECURSIVE applyAgents(_, _, _)
applyAgents(snaps, k, ags) ==
    IF k > Len(snaps) THEN ags
    ELSE applyAgents(snaps, k + 1,
                     [ i \in DOMAIN ags |->
                         IF i = FindAgent(ags, snaps[k].id)
                         THEN [ags[i] EXCEPT !.x = snaps[k].x, !.y = snaps[k].y,
                                             !.state = snaps[k].state]
                         ELSE ags[i] ])

\* a frame application that also writes the snapshot's state into the phase
applyFrameWithPhase(frame, ags, drs) ==
    [ agents |-> [ i \in DOMAIN ags |->
                     [applyAgents(frame.agents, 1, ags)[i] EXCEPT
                         !.phase = applyAgents(frame.agents, 1, ags)[i].state] ],
      drivers |-> [ j \in DOMAIN drs |->
                      IF j <= Len(frame.drivers)
                      THEN [drs[j] EXCEPT !.x = frame.drivers[j].x,
                                          !.y = frame.drivers[j].y,
                                          !.phase = frame.drivers[j].phase]
                      ELSE drs[j] ] ]

\* Simulation._applyFrame: the agents and drivers after it
applyFrame(frame, ags, drs) ==
    [ agents |-> applyAgents(frame.agents, 1, ags),
      drivers |-> [ j \in DOMAIN drs |->
                      IF j <= Len(frame.drivers)
                      THEN [drs[j] EXCEPT !.x = frame.drivers[j].x,
                                          !.y = frame.drivers[j].y,
                                          !.phase = frame.drivers[j].phase]
                      ELSE drs[j] ] ]

\* the while loop of _replayLoop: the index it stops at (counted from 0)
RECURSIVE seek(_, _, _)
seek(frames, idx, elapsed) ==
    IF idx < Len(frames) - 1 /\ frames[idx + 2].realTime <= elapsed
    THEN seek(frames, idx + 1, elapsed)
    ELSE idx

\* the timers after start() read the clock at n
started(tm, n) ==
    [now |-> n, startTime |-> n, lastFrameTime |-> n, pauseStart |-> 0,
     pausedTotal |-> 0, moved |-> 0]

\* the timers after pause() read the clock at n
pausedAt(tm, n) == [tm EXCEPT !.now = n, !.pauseStart = n]

\* a resume() that gives no credit for the time spent paused
resumedNoCredit(tm, n) ==
    [tm EXCEPT !.now = n, !.pauseStart = 0, !.lastFrameTime = n]

\* the timers after resume() read the clock at n
resumed(tm, n) ==
    [tm EXCEPT !.now = n, !.pausedTotal = @ + (n - tm.pauseStart),
               !.pauseStart = 0, !.lastFrameTime = n]

\* a replay() that goes on from the index the replay before stopped at
replayStartedKeepIndex(rs, n) ==
    [rs EXCEPT !.replaying = TRUE, !.replayStart = n]

\* _replaying, _replayIndex and _replayStart after replay() read the clock at n
replayStarted(rs, n) ==
    [replaying |-> TRUE, replayIndex |-> 0, replayStart |-> n]

\* the update calls of one tick, in the order _loop makes them
updateCalls(ags, drs) ==
    [ i \in DOMAIN ags |-> <<"Agent.update", ags[i].id>> ]
    \o [ j \in DOMAIN drs |-> <<"DeliveryDriver.update", j>> ]

\* a cancelAnimationFrame that leaves the callback with the browser
cancelledKeeps(q, id) == q

\* if (this.animFrameId) cancelAnimationFrame(this.animFrameId): the callbacks
\* left.  The id names the callback asked for last, while that one is still
\* to run.
cancelled(q, id) == IF id = "none" THEN q ELSE SubSeq(q, 1, Len(q) - 1)

\* the callbacks left when the browser runs the oldest one
fired(q) == Tail(q)

\* what animFrameId names once the oldest callback has run
firedId(q, id) == IF Len(q) = 1 THEN "none" ELSE id

\* a call that returns at its guard
Returned(op) ==
    /\ call' = [op |-> op, done |-> FALSE, order |-> <<>>]
    /\ UNCHANGED <<city, agents, drivers, clock, running, stalls, route,
                   paused, timer, replayState, frameCache, cached, animFrame,
                   pending, used>>

\* _loop past its guard, called by op with the clock reading tm.now, the
\* browser holding the callbacks q and animFrameId naming id
loop(op, tm, q, id) ==
    /\ timer' = [tm EXCEPT !.lastFrameTime = tm.now,
                            !.moved = IF ended(simHoursAt(elapsedTotal(tm)))
                                      THEN @ ELSE @ + deltaSeconds(tm)]
    /\ \E rests \in [DOMAIN agents -> ControlRests] :
          Loop(simHoursAt(elapsedTotal(tm)), deltaSeconds(tm), rests)
    /\ paused' = FALSE
    /\ IF ended(simHoursAt(elapsedTotal(tm)))
       THEN /\ frameCache' = Append(frameCache,
                                    recordFrame(SIM_DURATION_REAL * UnitsPerSec,
                                                SimDuration, agents, drivers))
            /\ cached' = [ logs  |-> [i \in DOMAIN agents |-> agents[i].log],
                           paths |-> [i \in DOMAIN agents |-> agents[i].pathHistory] ]
            /\ animFrame' = id
            /\ pending' = q
            /\ call' = [op |-> op, done |-> TRUE, order |-> << <<"_recordFrame">> >>]
       ELSE /\ frameCache' = Append(frameCache,
                                    recordFrame(elapsedTotal(tm),
                                                simHoursAt(elapsedTotal(tm)),
                                                agents', drivers'))
            /\ animFrame' = "loop"
            /\ pending' = Append(q, "loop")
            /\ call' = [op |-> op, done |-> TRUE,
                        order |-> updateCalls(agents, drivers)
                                  \o << <<"_recordFrame">> >>]
            /\ UNCHANGED cached

\* a start that goes on with an empty agent list
noAgentsNever(ags) == FALSE

\* if (this.agents.length === 0) in start
noAgents(ags) == Len(ags) = 0

\* Simulation.start: _createAgents, _frameCache = [], the return when no
\* agent was created, and else the _loop call it ends in (elapsedTotal 0,
\* deltaSeconds 0).  _createAgents returns before it resets this.drivers
\* when the city has no house or no business.  At most maxRuns calls are
\* followed past the guard.
StartWithin(maxRuns) ==
    IF running \/ replayState.replaying
    THEN Returned("start")
    ELSE /\ used.runs < maxRuns
         /\ used' = [used EXCEPT !.runs = @ + 1]
         /\ \E picks \in ControlPicks(CityOf(city)),
               speeds \in [ 1..Len(CityOf(city).houses) -> DriverSpeeds ],
               rests \in [ 1..Len(CityOf(city).houses) -> ControlRests ],
               d \in StartGaps :
               With(createAgents(CityOf(city), picks),
                    LAMBDA ags :
                       IF noAgents(ags)
                       THEN /\ agents' = ags
                            /\ frameCache' = <<>>
                            /\ call' = [op |-> "start", done |-> TRUE, order |-> <<>>]
                            /\ UNCHANGED <<drivers, timer, running, paused, clock,
                                           animFrame, pending>>
                       ELSE With(advance(CityOf(city), ags,
                                         createDrivers(CityOf(city), ags, 1, speeds),
                                         0, 0, [i \in DOMAIN ags |-> rests[i]]),
                                 LAMBDA r :
                                    /\ agents' = r.agents
                                    /\ drivers' = r.drivers
                                    /\ frameCache' = << recordFrame(0, 0, r.agents,
                                                                    r.drivers) >>
                                    /\ call' = [op |-> "start", done |-> TRUE,
                                                order |-> updateCalls(r.agents, r.drivers)
                                                          \o << <<"_recordFrame">> >>]
                                    /\ timer' = started(timer, timer.now + d)
                                    /\ running' = TRUE
                                    /\ paused' = FALSE
                                    /\ clock' = 0
                                    /\ animFrame' = "loop"
                                    /\ pending' = Append(pending, "loop")))
         /\ UNCHANGED <<city, stalls, route, replayState, cached>>

Start == StartWithin(MaxRuns)

\* the requestAnimationFrame callback of _loop: the browser runs the oldest
\* callback it holds
LoopTick ==
    /\ pending # <<>>
    /\ Head(pending) = "loop"
    /\ IF ~running \/ paused
       THEN /\ animFrame' = firedId(pending, animFrame)
            /\ pending' = fired(pending)
            /\ call' = [op |-> "_loop", done |-> FALSE, order |-> <<>>]
            /\ UNCHANGED <<city, agents, drivers, clock, running, stalls, route,
                           paused, timer, replayState, frameCache, cached, used>>
       ELSE /\ \E d \in FrameSteps :
                 loop("_loop", [timer EXCEPT !.now = @ + d], fired(pending),
                      firedId(pending, animFrame))
            /\ UNCHANGED <<city, stalls, route, replayState, used>>

\* a guard of pause() that does not ask whether a run is on
canPauseIdle == ~paused

\* pause() may go on: running and not yet paused
canPause == running /\ ~paused

\* Simulation.pause
Pause ==
    IF ~canPause
    THEN Returned("pause")
    ELSE \E d \in PauseDelays :
            /\ used.pauses < MaxPauses
            /\ used' = [used EXCEPT !.pauses = @ + 1]
            /\ paused' = TRUE
            /\ timer' = pausedAt(timer, timer.now + d)
            /\ pending' = cancelled(pending, animFrame)
            /\ animFrame' = "none"
            /\ call' = [op |-> "pause", done |-> TRUE, order |-> <<>>]
            /\ UNCHANGED <<city, agents, drivers, clock, running, stalls, route,
                           replayState, frameCache, cached>>

\* Simulation.resume, with the _loop call it ends in
Resume ==
    IF ~running \/ ~paused
    THEN Returned("resume")
    ELSE /\ \E d \in PauseSpans :
              loop("resume", resumed(timer, timer.now + d), pending, animFrame)
         /\ UNCHANGED <<city, stalls, route, replayState, used>>

\* Simulation.stop
Stop ==
    /\ running' = FALSE
    /\ paused' = FALSE
    /\ pending' = cancelled(pending, animFrame)
    /\ animFrame' = "none"
    /\ call' = [op |-> "stop", done |-> TRUE, order |-> <<>>]
    /\ UNCHANGED <<city, agents, drivers, clock, stalls, route, timer,
                   replayState, frameCache, cached, used>>

\* Simulation.generateCity: stop(), _stopReplay(), a new city, and the
\* agents, the drivers, the frames and the cached logs dropped
GenerateCity ==
    /\ city' \in ControlCities
    /\ running' = FALSE
    /\ paused' = FALSE
    /\ replayState' = [replayState EXCEPT !.replaying = FALSE]
    /\ pending' = cancelled(pending, animFrame)
    /\ animFrame' = "none"
    /\ agents' = <<>>
    /\ drivers' = <<>>
    /\ frameCache' = <<>>
    /\ cached' = NoCache
    /\ call' = [op |-> "generateCity", done |-> TRUE, order |-> <<>>]
    /\ UNCHANGED <<clock, stalls, route, timer, used>>

\* _replayLoop past its guard, called by op at the clock reading n with the
\* replay fields rs and the call counts u, the browser holding the callbacks
\* q and animFrameId naming id
replayLoop(op, rs, n, u, q, id) ==
    /\ With(seek(frameCache, rs.replayIndex, n - rs.replayStart),
            LAMBDA idx :
               With(applyFrame(frameCache[idx + 1], agents, drivers),
                    LAMBDA r :
                       IF idx >= Len(frameCache) - 1
                       THEN /\ replayState' = [rs EXCEPT !.replayIndex = idx,
                                                         !.replaying = FALSE]
                            /\ agents' = [ i \in DOMAIN agents |->
                                             IF cached = NoCache THEN r.agents[i]
                                             ELSE [r.agents[i] EXCEPT
                                                      !.log = cached.logs[i],
                                                      !.pathHistory = cached.paths[i]] ]
                            /\ drivers' = r.drivers
                            /\ animFrame' = id
                            /\ pending' = q
                            /\ used' = [u EXCEPT !.completed = @ + 1]
                       ELSE /\ replayState' = [rs EXCEPT !.replayIndex = idx]
                            /\ agents' = r.agents
                            /\ drivers' = r.drivers
                            /\ animFrame' = "replay"
                            /\ pending' = Append(q, "replay")
                            /\ used' = u))
    /\ timer' = [timer EXCEPT !.now = n]
    /\ call' = [op |-> op, done |-> TRUE, order |-> <<>>]

\* Simulation.replay: stop(), _stopReplay(), then the first _replayLoop call
Replay ==
    IF Len(frameCache) = 0
    THEN Returned("replay")
    ELSE /\ used.replays < MaxReplays
         /\ \E d \in ReplayGaps :
              replayLoop("replay", replayStarted(replayState, timer.now + d),
                         timer.now + d, [used EXCEPT !.replays = @ + 1],
                         cancelled(pending, animFrame), "none")
         /\ running' = FALSE
         /\ paused' = FALSE
         /\ UNCHANGED <<city, clock, stalls, route, frameCache, cached>>

\* the requestAnimationFrame callback of _replayLoop
ReplayLoop ==
    /\ pending # <<>>
    /\ Head(pending) = "replay"
    /\ IF ~replayState.replaying
       THEN /\ animFrame' = firedId(pending, animFrame)
            /\ pending' = fired(pending)
            /\ call' = [op |-> "_replayLoop", done |-> FALSE, order |-> <<>>]
            /\ UNCHANGED <<city, agents, drivers, clock, running, stalls, route,
                           paused, timer, replayState, frameCache, cached, used>>
       ELSE /\ \E d \in ReplaySteps :
                 replayLoop("_replayLoop", replayState, timer.now + d, used,
                            fired(pending), firedId(pending, animFrame))
            /\ UNCHANGED <<city, clock, running, paused, stalls, route,
                           frameCache, cached>>

\* the Simulation after its constructor: a city, no agents, nothing recorded
InitControl ==
    /\ city \in ControlCities
    /\ agents = <<>>
    /\ drivers = <<>>
    /\ clock = 0
    /\ running = FALSE
    /\ stalls = 0
    /\ route = NoRoute
    /\ Constructed

NextControl == Start \/ LoopTick \/ Pause \/ Resume \/ Replay \/ ReplayLoop

SpecControl == InitControl /\ [][NextControl]_vars

\* the driver with every control of the page: stop and generateCity too
NextDriver == NextControl \/ Stop \/ GenerateCity

SpecDriver == InitControl /\ [][NextDriver]_vars

\* the driver started a second time: start, the frame callbacks and replay,
\* with one start more than MaxRuns followed
MaxReruns == 2

Restart == StartWithin(MaxReruns)

NextRerun == Restart \/ LoopTick \/ Replay \/ ReplayLoop

SpecRerun == InitControl /\ [][NextRerun]_vars

\* ---- the phase graph as documented
DocumentedEdges ==
    { <<"sleeping", "waiting_for_work">>,
      <<"waiting_for_work", "commuting_to_work">>,
      <<"commuting_to_work", "at_work">>,
      <<"at_work", "commuting_to_lunch">>,
      <<"commuting_to_lunch", "at_lunch">>,
      <<"at_lunch", "returning_from_lunch">>,
      <<"returning_from_lunch", "at_work">>,
      <<"at_work", "commuting_home_from_work">>,
      <<"commuting_to_lunch", "commuting_home_from_work">>,
      <<"at_lunch", "commuting_home_from_work">>,
      <<"returning_from_lunch", "commuting_home_from_work">>,
      <<"commuting_home_from_work", "at_home_considering_leisure">>,
      <<"commuting_home_from_work", "at_home_evening">>,
      <<"at_home_considering_leisure", "commuting_to_leisure">>,
      <<"commuting_to_leisure", "at_leisure">>,
      <<"at_leisure", "commuting_home_from_leisure">>,
      <<"commuting_home_from_leisure", "at_home_evening">>,
      <<"at_home_evening", "asleep_night">> }

\* the changes a call makes when its route request finds no route: the trip
\* home counts as made, the leisure trip as given up
NoRouteEdges ==
    { <<"commuting_to_lunch", "at_home_considering_leisure">>,
      <<"commuting_to_lunch", "at_home_evening">>,
      <<"at_lunch", "at_home_considering_leisure">>,
      <<"at_lunch", "at_home_evening">>,
      <<"at_home_considering_leisure", "at_home_evening">> }

TravelPhases ==
    { "commuting_to_work", "commuting_to_lunch", "returning_from_lunch",
      "commuting_home_from_work", "commuting_to_leisure",
      "commuting_home_from_leisure" }

AtHomePhases == { "at_home_considering_leisure", "at_home_evening" }

LastEvent(a) == IF Len(a.log) = 0 THEN "" ELSE a.log[Len(a.log)].event

\* the events named e in a's log, as indices
EventsOf(a, e) == { k \in DOMAIN a.log : a.log[k].event = e }

\* C1 as claimed: every change of an actor's phase is an edge of the
\* documented graph.
C1_DocumentedOnly ==
    [][\A i \in DOMAIN agents :
          agents'[i].phase # agents[i].phase
            => <<agents[i].phase, agents'[i].phase>> \in DocumentedEdges]_vars

\* C1 amended: every change of an actor's phase is an edge of the documented
\* graph or one of the no-route edges (commuting_to_lunch or at_lunch straight
\* to an at-home phase, at_home_considering_leisure to at_home_evening).
C1_PhaseGraph ==
    [][\A i \in DOMAIN agents :
          agents'[i].phase # agents[i].phase
            => <<agents[i].phase, agents'[i].phase>>
                  \in DocumentedEdges \cup NoRouteEdges]_vars

\* an actor that left the eatery late, found no route home and is at home
C1_Witness ==
    \E i \in DOMAIN agents :
        /\ agents[i].phase \in AtHomePhases
        /\ agents[i].navResult = "null"
        /\ Len(agents[i].log) >= 2
        /\ agents[i].log[Len(agents[i].log) - 1].event = "Left eatery (late)"
        /\ LastEvent(agents[i]) = "Arrived home"

\* C2 as claimed: one call assigns the phase at most once, and the phase after
\* the call is the phase before it or a direct successor of it.
C2_DirectSuccessor ==
    [][\A i \in DOMAIN agents :
          /\ agents'[i].phaseWrites <= 1
          /\ \/ agents'[i].phase = agents[i].phase
             \/ <<agents[i].phase, agents'[i].phase>> \in DocumentedEdges]_vars

\* C2 amended: one call assigns the phase at most once; the phase after the
\* call is the phase before it, a direct successor of it, or, in a call whose
\* route request found no route, the end of a no-route edge.
C2_OneTransition ==
    [][\A i \in DOMAIN agents :
          /\ agents'[i].phaseWrites <= 1
          /\ \/ agents'[i].phase = agents[i].phase
             \/ <<agents[i].phase, agents'[i].phase>> \in DocumentedEdges
             \/ /\ agents'[i].navResult = "null"
                /\ <<agents[i].phase, agents'[i].phase>> \in NoRouteEdges]_vars

\* a call that went through _headHome and _decideLeisure: no route home from
\* the lunch trip, and the phase written once
C2_Witness ==
    \E i \in DOMAIN agents :
        /\ agents[i].phase = "at_home_considering_leisure"
        /\ agents[i].navResult = "null"
        /\ agents[i].phaseWrites = 1
        /\ LastEvent(agents[i]) = "Arrived home"

\* C3 as claimed: an update call at or after work-end that finds the actor in
\* commuting_to_lunch, at_lunch or returning_from_lunch sends it home.
C3_LunchEscape ==
    [][\A i \in DOMAIN agents :
          (/\ running'
           /\ agents[i].phase \in LunchPhases
           /\ clock' >= agents[i].workEnd)
            => agents'[i].phase \in {"commuting_home_from_work"} \cup AtHomePhases]_vars

\* C4 as claimed: when the run has ended, an actor whose eatery is more than
\* DELIVERY_DISTANCE tiles from its workplace and that has a route to work has
\* logged 'Ordered delivery' exactly once, before lunchStart, and never
\* 'Left for lunch'.
C4_FarEateryOrders ==
    ~running =>
        \A i \in DOMAIN agents :
            (/\ agents[i].eatery # NoCell
             /\ Chebyshev(agents[i].workplace, agents[i].eatery) > DELIVERY_DISTANCE
             /\ findPath(CityOf(city), agents[i].home[1], agents[i].home[2],
                         agents[i].workplace[1], agents[i].workplace[2]) # NoPath)
              => /\ Cardinality(EventsOf(agents[i], "Ordered delivery")) = 1
                 /\ \A k \in EventsOf(agents[i], "Ordered delivery") :
                       agents[i].log[k].time < agents[i].lunchStart
                 /\ EventsOf(agents[i], "Left for lunch") = {}

\* C5 as claimed: the delivery event of a courier that is done lies in its
\* actor's log after an 'Ordered delivery' event, with a timestamp at or after
\* that event's and at or before the actor's lunchEnd.
C5_DeliveryWindow ==
    \A j \in DOMAIN drivers :
        drivers[j].phase = "done" =>
            LET a == agents[drivers[j].agent]
            IN  \A k \in EventsOf(a, "Delivery by") :
                    /\ \E m \in EventsOf(a, "Ordered delivery") :
                          m < k /\ a.log[m].time <= a.log[k].time
                    /\ a.log[k].time <= a.lunchEnd

\* C6 as claimed: a call whose route request finds no route leaves the actor
\* where it was and puts it into no travel phase.
C6_StaysInPlace ==
    [][\A i \in DOMAIN agents :
          agents'[i].navResult = "null"
            => /\ agents'[i].x = agents[i].x
               /\ agents'[i].y = agents[i].y
               /\ agents'[i].phase \notin TravelPhases]_vars

\* C6 amended: a call whose route request finds no route puts the actor into
\* no travel phase; the actor stays where it was when the trip was to work, to
\* lunch, back to work or to leisure, and is set on its home cell when the trip
\* was the one home (_headHome, which logs 'Arrived home').
C6_NoRouteNoTravel ==
    [][\A i \in DOMAIN agents :
          agents'[i].navResult = "null"
            => /\ agents'[i].phase \notin TravelPhases
               /\ IF agents[i].phase \in {"waiting_for_work", "at_home_considering_leisure"}
                     \/ LastEvent(agents'[i]) \in {"Left for lunch", "Left eatery"}
                  THEN agents'[i].x = agents[i].x /\ agents'[i].y = agents[i].y
                  ELSE /\ LastEvent(agents'[i]) = "Arrived home"
                       /\ agents'[i].x = agents[i].home[1] * UnitsPerSec
                       /\ agents'[i].y = agents[i].home[2] * UnitsPerSec]_vars

\* no route to lunch: the actor is still at work, on its workplace cell
C6_Witness ==
    \E i \in DOMAIN agents :
        /\ agents[i].navResult = "null"
        /\ agents[i].phase = "at_work"
        /\ LastEvent(agents[i]) = "Left for lunch"
        /\ agents[i].x = agents[i].workplace[1] * UnitsPerSec

\* C10: an actor that, when it arrives home from work at time t, does not want
\* leisure, has no leisure spot or has t + 0.5 h + leisureDuration + 0.5 h
\* after its curfew is never in at_home_considering_leisure and logs no
\* 'Left home' after its first 'Arrived home'.
C10_NoLateLeisure ==
    \A i \in DOMAIN agents :
        LET a == agents[i]
            H == EventsOf(a, "Arrived home")
        IN  H # {} =>
              LET k == Earliest(H)
                  t == a.log[k].time
              IN  (\/ ~a.wantsLeisure
                   \/ a.leisureSpot = NoCell
                   \/ t + 30 + a.leisureDuration + 30 > a.curfew)
                    => /\ a.phase # "at_home_considering_leisure"
                       /\ \A m \in EventsOf(a, "Left home") : m < k

\* an actor that wants leisure and has a leisure spot, came home too late for
\* it and is asleep at the end of the day
C10_Witness ==
    \E i \in DOMAIN agents :
        LET a == agents[i]
            H == EventsOf(a, "Arrived home")
        IN  /\ a.wantsLeisure
            /\ a.leisureSpot # NoCell
            /\ H # {}
            /\ a.log[Earliest(H)].time + 30 + a.leisureDuration + 30 > a.curfew
            /\ a.log[Earliest(H)].time + a.leisureDuration <= a.curfew
            /\ a.phase = "asleep_night"

LeisurePhases == {"commuting_to_leisure", "at_leisure", "commuting_home_from_leisure"}

\* C11 as claimed: an actor out for leisure is back home by its curfew: it is
\* in no leisure phase at a simulated time after curfew, and the 'Arrived home'
\* that follows 'Left leisure' is stamped at or before curfew.
C11_HomeByCurfew ==
    \A i \in DOMAIN agents :
        LET a == agents[i]
        IN  /\ a.phase \in LeisurePhases => clock <= a.curfew
            /\ \A k \in EventsOf(a, "Left leisure") :
                  \A m \in EventsOf(a, "Arrived home") :
                      m > k => a.log[m].time <= a.curfew

DriverRank(p) ==
    CASE p = "waiting"      -> 1
      [] p = "delivering"   -> 2
      [] p = "dropping_off" -> 3
      [] p = "returning"    -> 4
      [] OTHER              -> 5

\* C19: no DeliveryDriver.update call moves a courier to an earlier phase of
\* waiting -> delivering -> dropping_off -> returning -> done; a courier in
\* done is left as it is; delivering is entered from waiting only, so at most
\* once per run.
C19_CourierForward ==
    [][ \A j \in DOMAIN drivers :
           /\ DriverRank(drivers'[j].phase) >= DriverRank(drivers[j].phase)
           /\ drivers[j].phase = "done" => drivers'[j] = drivers[j]
           /\ (drivers'[j].phase = "delivering" /\ drivers[j].phase # "delivering")
                 => drivers[j].phase = "waiting" ]_vars

\* a courier has gone through its whole lifecycle: it delivered and is done
C19_Witness ==
    \E j \in DOMAIN drivers :
        /\ drivers[j].phase = "done"
        /\ EventsOf(agents[drivers[j].agent], "Delivery by") # {}
        /\ drivers[j].x = drivers[j].eatery[1] * UnitsPerSec

\* the courier has no outbound route eatery -> workplace
NoOutboundRoute(d) ==
    findPath(CityOf(city), d.eatery[1], d.eatery[2], d.business[1], d.business[2])
        = NoPath

\* C20: a courier with no outbound route eatery -> workplace is in done as
\* constructed, on its eatery, with no path and no event of its own in its
\* actor's log; and no step changes anything of a courier that is in done or
\* adds a courier's event to its actor's log, so all of this stays so.
C20_NoRouteCourierDone ==
    /\ \A j \in DOMAIN drivers :
          NoOutboundRoute(drivers[j]) =>
              /\ drivers[j].phase = "done"
              /\ drivers[j].x = drivers[j].eatery[1] * UnitsPerSec
              /\ drivers[j].y = drivers[j].eatery[2] * UnitsPerSec
              /\ drivers[j].path = NoPath
              /\ EventsOf(agents[drivers[j].agent], "Delivery by") = {}
    /\ [][ \A j \in DOMAIN drivers :
              drivers[j].phase = "done" =>
                  /\ drivers'[j] = drivers[j]
                  /\ EventsOf(agents'[drivers[j].agent], "Delivery by")
                        = EventsOf(agents[drivers[j].agent], "Delivery by") ]_vars

\* the owner of such a courier has ordered and its lunch break is over
C20_Witness ==
    \E j \in DOMAIN drivers :
        /\ NoOutboundRoute(drivers[j])
        /\ EventsOf(agents[drivers[j].agent], "Ordered delivery") # {}
        /\ clock >= agents[drivers[j].agent].lunchEnd

\* ---- the controls: ticks, the frame cache, pause, resume and replay
\* the operations that end in a tick of _loop
TickOps == {"start", "_loop", "resume"}

Last(seq) == seq[Len(seq)]

\* the frame holds agents ags and drivers drs as they are, one entry each
FrameShows(f, ags, drs) ==
    /\ Len(f.agents) = Len(ags)
    /\ \A i \in DOMAIN ags :
          f.agents[i] = [x |-> ags[i].x, y |-> ags[i].y, state |-> ags[i].state,
                         id |-> ags[i].id]
    /\ Len(f.drivers) = Len(drs)
    /\ \A j \in DOMAIN drs :
          /\ f.drivers[j].x = drs[j].x
          /\ f.drivers[j].y = drs[j].y
          /\ f.drivers[j].phase = drs[j].phase

\* C13: a tick that does not end the run calls update on every actor once, in
\* id order, then on every courier once, in creation order, then _recordFrame
\* once; the frame cache grows by that one frame, which has one entry per
\* actor and one per courier showing them as the tick left them; an event a
\* courier logs in the tick comes after every event its actor logged in it.
C13_TickOrder ==
    [][ (call'.done /\ call'.op \in TickOps /\ running') =>
          /\ call'.order =
                [ i \in 1..Len(agents') |-> <<"Agent.update", i - 1>> ]
                \o [ j \in 1..Len(drivers') |-> <<"DeliveryDriver.update", j>> ]
                \o << <<"_recordFrame">> >>
          /\ \A i \in DOMAIN agents' : agents'[i].id = i - 1
          /\ frameCache' = (IF call'.op = "start" THEN <<>> ELSE frameCache)
                           \o << Last(frameCache') >>
          /\ FrameShows(Last(frameCache'), agents', drivers')
          /\ \A j \in DOMAIN drivers' :
                (call'.op # "start" /\ drivers[j].phase = "delivering"
                    /\ drivers'[j].phase = "dropping_off")
                => Last(agents'[drivers'[j].agent].log).event = "Delivery by" ]_vars

\* a tick in which an actor logged an event of its own and its courier then
\* logged the delivery, with two actors and fewer couriers than actors
C13_Witness ==
    /\ call.op = "_loop" /\ call.done /\ running
    /\ Len(agents) = 2 /\ Len(drivers) = 1
    /\ \E j \in DOMAIN drivers :
          LET log == agents[drivers[j].agent].log
          IN  /\ Len(log) >= 2
              /\ log[Len(log)].event = "Delivery by"
              /\ log[Len(log)].time = clock
              /\ log[Len(log) - 1].time = clock

\* the real-time budget of a run, SIM_DURATION_REAL seconds
Budget == SIM_DURATION_REAL * UnitsPerSec

C15_PauseExcluded ==
    [][ /\ (paused /\ ~(call'.op = "resume" /\ call'.done)) =>
              /\ call'.order = <<>>
              /\ frameCache' = frameCache
              /\ paused' => (agents' = agents /\ drivers' = drivers /\ clock' = clock)
        /\ (call'.op = "resume" /\ call'.done) =>
              /\ clock' >= clock
              /\ clock' = Min(SIM_DURATION_HOURS * MinutesPerHour,
                              clock + simHoursAt(timer.pauseStart - timer.lastFrameTime))
              /\ timer'.pausedTotal = timer.pausedTotal + (timer'.now - timer.pauseStart)
        /\ (call'.op = "_loop" /\ call'.done) =>
              clock' = Min(SIM_DURATION_HOURS * MinutesPerHour,
                           clock + simHoursAt(timer'.now - timer.lastFrameTime)) ]_vars

\* a run has been resumed after a pause: its tick is later than the tick
\* before the pause by the time run before the pause call
C15_Witness ==
    /\ call.op = "resume" /\ call.done /\ running
    /\ timer.pausedTotal > 0
    /\ Len(frameCache) >= 3
    /\ Last(frameCache).simHours > frameCache[Len(frameCache) - 1].simHours

\* the state of the driver, the actors, the couriers and the frame log
driverState ==
    <<city, agents, drivers, clock, running, paused, timer, replayState,
      frameCache, cached, animFrame, pending>>

\* C16: a call of pause when not running or already paused, of resume when
\* not running or not paused, of start when running or replaying, and of
\* replay when the frame log is empty changes nothing of the driver, the
\* actors, the couriers and the frame log.
C16_InvalidCallsNoOp ==
    [][ /\ (call'.op = "pause" /\ (~running \/ paused)) => driverState' = driverState
        /\ (call'.op = "resume" /\ (~running \/ ~paused)) => driverState' = driverState
        /\ (call'.op = "start" /\ (running \/ replayState.replaying))
              => driverState' = driverState
        /\ (call'.op = "replay" /\ Len(frameCache) = 0) => driverState' = driverState
      ]_vars

\* start has been called while a replay of a recorded run was under way
C16_Witness ==
    /\ call.op = "start" /\ ~call.done
    /\ replayState.replaying
    /\ animFrame = "replay"
    /\ Len(frameCache) >= 2

\* the fields of an actor that are its schedule
Schedule(a) ==
    <<a.workStart, a.wakeUpTime, a.workDuration, a.workEnd, a.takesLunch,
      a.lunchDuration, a.lunchStart, a.lunchEnd, a.ordersDelivery, a.orderTime,
      a.wantsLeisure, a.leisureDuration, a.bedTime, a.curfew,
      a.leisureDepartureTime, a.leisureEndTime>>

\* what a findPath call or an update call would write: the route fields of
\* an actor and of a courier
Routing(m) == <<m.path, m.pathIndex, m.moveProgress>>

\* C17: in the step that calls replay and in every step while the replay is
\* under way no update is called and no frame is recorded, the frame log is
\* as it was, and every actor keeps its schedule, its phase and its route
\* fields and every courier its route fields (no findPath result is stored).
C17_ReplayReadsOnly ==
    [][ (replayState.replaying \/ (call'.op = "replay" /\ call'.done)) =>
          /\ call'.order = <<>>
          /\ frameCache' = frameCache
          /\ Len(agents') = Len(agents) /\ Len(drivers') = Len(drivers)
          /\ \A i \in DOMAIN agents :
                /\ Schedule(agents'[i]) = Schedule(agents[i])
                /\ agents'[i].phase = agents[i].phase
                /\ Routing(agents'[i]) = Routing(agents[i])
                /\ agents'[i].navResult = agents[i].navResult
                /\ agents'[i].hadLunch = agents[i].hadLunch
                /\ agents'[i].orderedDelivery = agents[i].orderedDelivery
          /\ \A j \in DOMAIN drivers :
                /\ Routing(drivers'[j]) = Routing(drivers[j])
                /\ drivers'[j].deliveryPath = drivers[j].deliveryPath
                /\ drivers'[j].dropOffEnd = drivers[j].dropOffEnd ]_vars

\* a replay of a whole recorded run has completed, through a frame in
\* between, for actors that were no longer in the phase of their first frame
C17_Witness ==
    /\ call.op = "_replayLoop" /\ call.done
    /\ ~replayState.replaying
    /\ Len(frameCache) >= 4
    /\ Last(frameCache).simHours = SIM_DURATION_HOURS * MinutesPerHour
    /\ \A i \in DOMAIN agents : agents[i].phase # "sleeping"
    /\ \E j \in DOMAIN drivers : drivers[j].phase = "returning"

\* the operations that end in a call of _replayLoop
ReplayOps == {"replay", "_replayLoop"}

\* C18: whenever a replay completes, every actor's position and visible state
\* and every courier's position and phase are those of the last frame of
\* the frame log, whatever was replayed before; every replay call starts
\* from index 0 at its own clock reading and shows the frame found from
\* there, whatever index the replay before it had reached.
C18_ReplayRepeatable ==
    [][ (call'.op \in ReplayOps /\ call'.done) =>
          /\ ~replayState'.replaying =>
                /\ replayState'.replayIndex = Len(frameCache') - 1
                /\ FrameShows(Last(frameCache'), agents', drivers')
          /\ call'.op = "replay" =>
                /\ replayState'.replayStart = timer'.now
                /\ replayState'.replayIndex = seek(frameCache, 0, 0)
                /\ FrameShows(frameCache[seek(frameCache, 0, 0) + 1],
                              agents', drivers') ]_vars

\* the recorded run has been replayed to completion for the second time
C18_Witness ==
    /\ call.op = "_replayLoop" /\ call.done
    /\ ~replayState.replaying
    /\ used.completed = 2
    /\ Len(frameCache) >= 4
    /\ Last(frameCache).simHours = SIM_DURATION_HOURS * MinutesPerHour
    /\ frameCache[1].drivers # Last(frameCache).drivers
    /\ frameCache[1].agents # Last(frameCache).agents

\* ---- the delivery event

\* the couriers of actor i that reach the drop-off in this step
Arriving(i) ==
    { j \in DOMAIN drivers :
        /\ drivers[j].agent = i
        /\ drivers[j].phase = "delivering"
        /\ drivers'[j].phase = "dropping_off" }

\* the indices of the entries this step appended to actor i's log
Appended(i) == (Len(agents[i].log) + 1)..Len(agents'[i].log)

\* in a step of one run: actor i's log grows by a suffix whose delivery events
\* are its last entries, one for each courier of i that reaches the drop-off
\* in the step, stamped with the tick's time
DeliveryAppended(i) ==
    /\ Len(agents'[i].log) >= Len(agents[i].log)
    /\ SubSeq(agents'[i].log, 1, Len(agents[i].log)) = agents[i].log
    /\ { k \in Appended(i) : agents'[i].log[k].event = "Delivery by" }
         = (Len(agents'[i].log) - Cardinality(Arriving(i)) + 1)..Len(agents'[i].log)
    /\ \A k \in Appended(i) :
          agents'[i].log[k].event = "Delivery by"
             => /\ agents'[i].log[k].time = clock'
                /\ \E j \in Arriving(i) : agents'[i].log[k].location = drivers[j].eatery

\* the step is a tick of a run under way
Ticking == call'.op \in {"_loop", "resume"} /\ DOMAIN agents' = DOMAIN agents

CouriersOf(i) == { j \in DOMAIN drivers : drivers[j].agent = i }

\* the actor's eatery is more than DELIVERY_DISTANCE tiles from its workplace
FarEatery(a) == a.eatery # NoCell /\ Chebyshev(a.workplace, a.eatery) > DELIVERY_DISTANCE

\* C22 as claimed: after start there is exactly one courier for each actor
\* whose eatery is more than 20 tiles from its workplace and none for any
\* other actor; every courier's owner is one of the actors.
C22_CourierPerFarEatery ==
    /\ \A i \in DOMAIN agents :
          Cardinality(CouriersOf(i)) = IF FarEatery(agents[i]) THEN 1 ELSE 0
    /\ \A j \in DOMAIN drivers : drivers[j].agent \in DOMAIN agents

\* what the code keeps: one courier for each actor that orders delivery
C22_CourierPerOrder ==
    /\ \A i \in DOMAIN agents :
          Cardinality(CouriersOf(i)) = IF agents[i].ordersDelivery THEN 1 ELSE 0
    /\ \A j \in DOMAIN drivers : drivers[j].agent \in DOMAIN agents

\* ---- what a run leaves alone

\* the fields of an actor that its constructor fixes
FixedAtCreation(a) ==
    <<a.wakeUpTime, a.workStart, a.workDuration, a.workEnd, a.takesLunch,
      a.lunchStart, a.lunchEnd, a.ordersDelivery, a.orderTime, a.wantsLeisure,
      a.leisureDuration, a.bedTime, a.curfew, a.speed>>

\* the step is a start call that created the actors anew
Restarted == call'.op = "start" /\ call'.done

\* C23: no update call and no operation of the driver other than start
\* changes wakeUpTime, workStart, workDuration, workEnd, takesLunch,
\* lunchStart, lunchEnd, ordersDelivery, orderTime, wantsLeisure,
\* leisureDuration, bedTime, curfew or speed of any actor.
C23_ScheduleFixed ==
    [][~Restarted
         => /\ DOMAIN agents' = DOMAIN agents
            /\ \A i \in DOMAIN agents :
                  FixedAtCreation(agents'[i]) = FixedAtCreation(agents[i])]_vars

\* an actor that ordered delivery and went out for leisure is asleep at the end
\* of its day, its courier back at the eatery
C23_Witness ==
    /\ ~running
    /\ \E i \in DOMAIN agents :
          /\ agents[i].phase = "asleep_night"
          /\ EventsOf(agents[i], "Arrived leisure") # {}
          /\ EventsOf(agents[i], "Delivery by") # {}
          /\ \E j \in CouriersOf(i) : drivers[j].phase = "done"

\* log is a prefix of later
IsPrefix(log, later) ==
    /\ Len(log) <= Len(later)
    /\ \A k \in DOMAIN log : later[k] = log[k]

\* C24: an actor's event log is append-only during a run: every tick's update
\* calls leave the entries logged before unchanged and in order, and the
\* log's length never decreases.
C24_LogAppendOnly ==
    [][\A i \in DOMAIN agents : IsPrefix(agents[i].log, agents'[i].log)]_vars

\* an actor's log has taken entries from the actor and from its courier, and
\* the actor has logged again after the courier
C24_Witness ==
    \E i \in DOMAIN agents :
       \E k \in EventsOf(agents[i], "Delivery by") :
          /\ k > 3
          /\ Len(agents[i].log) > k
          /\ agents[i].log[k + 1].event = "Left work"

\* ---- start in a city without buildings

\* the city has no house or no business
Unbuilt(c) == Len(c.houses) = 0 \/ Len(c.businesses) = 0

\* C25: in a city with no residence or no workplace a start call that gets
\* past its guard creates no actor, leaves running false, schedules no tick
\* and records no frame (it calls no update either).
C25_NoBuildingsNoRun ==
    [][ (call'.op = "start" /\ call'.done /\ Unbuilt(CityOf(city))) =>
          /\ agents' = <<>>
          /\ ~running /\ ~running'
          /\ animFrame' = "none"
          /\ frameCache' = <<>>
          /\ call'.order = <<>>
          /\ clock' = clock /\ timer' = timer ]_vars

\* start has returned in a city that has houses and no business
C25_Witness ==
    /\ call.op = "start" /\ call.done
    /\ Len(CityOf(city).houses) > 0
    /\ Len(CityOf(city).businesses) = 0
    /\ used.runs = 1
    /\ agents = <<>> /\ ~running

\* ---- thresholds seen late

\* the step is a tick that updates the actors, at the simulated time clock'
Updating == running /\ running'

\* the call of this step on actor i fired the transition of a's phase: the
\* phase changed (given a route, where the transition needs one)
Fired(i) ==
    /\ agents'[i].phase # agents[i].phase
    /\ agents'[i].phaseWrites > 0

\* the threshold of phase p in a's schedule that is due at time t, for a
\* phase that has one
Due(a, t) ==
    \/ a.phase = "sleeping" /\ t >= a.wakeUpTime
    \/ a.phase = "waiting_for_work" /\ t >= a.workStart
    \/ a.phase = "at_work" /\ t >= a.workEnd
    \/ a.phase = "at_work" /\ a.takesLunch /\ ~a.ordersDelivery /\ ~a.hadLunch
          /\ t >= a.lunchStart
    \/ a.phase = "at_lunch" /\ t >= a.lunchEnd
    \/ a.phase = "at_home_considering_leisure" /\ t >= a.leisureDepartureTime
    \/ a.phase = "at_leisure" /\ t >= a.leisureEndTime
    \/ a.phase = "at_home_evening" /\ t >= a.bedTime

\* C26 as claimed: an update call made in a phase with a scheduled threshold
\* (wake, work start, lunch start, lunch end, work end, leisure departure,
\* leisure end, bedtime) at simHours >= the threshold fires the transition in
\* that call, given a route exists; an at_work actor seen at simHours >=
\* workEnd leaves work in that call.
C26_LevelTriggered ==
    [][Updating =>
         \A i \in DOMAIN agents :
            /\ (Due(agents[i], clock') /\ agents'[i].navResult # "null") => Fired(i)
            /\ (agents[i].phase = "at_work" /\ clock' >= agents[i].workEnd)
                  => /\ agents'[i].phase # "at_work"
                     /\ LastEvent(agents'[i]) \in {"Left work", "Arrived home"}]_vars

\* lunch is still to be settled for an at_work actor: the lunch test of the
\* at_work case comes before its work-end test and ends the call
LunchUnsettled(a) == a.phase = "at_work" /\ a.takesLunch /\ ~a.hadLunch

\* what the code keeps: the same with the update calls left out that find an
\* at_work actor past workEnd with its lunch unsettled
C26_LevelTriggeredButLunch ==
    [][Updating =>
         \A i \in DOMAIN agents :
            ~(LunchUnsettled(agents[i]) /\ clock' >= agents[i].workEnd)
               => /\ (Due(agents[i], clock') /\ agents'[i].navResult # "null")
                        => Fired(i)
                  /\ (agents[i].phase = "at_work" /\ clock' >= agents[i].workEnd)
                        => /\ agents'[i].phase # "at_work"
                           /\ LastEvent(agents'[i]) \in {"Left work", "Arrived home"}]_vars

\* ---- the morning

\* C27: every actor has wakeUpTime <= workStart <= workEnd, and an 'Arrived
\* work' entry of its log has a 'Wake up' entry before it whose timestamp is
\* not greater.
C27_WakeBeforeWork ==
    \A i \in DOMAIN agents :
       /\ agents[i].wakeUpTime <= agents[i].workStart
       /\ agents[i].workStart <= agents[i].workEnd
       /\ \A k \in EventsOf(agents[i], "Arrived work") :
             \E w \in EventsOf(agents[i], "Wake up") :
                w < k /\ agents[i].log[w].time <= agents[i].log[k].time

\* an actor woken by a late frame, after its workStart, has arrived at work
C27_Witness ==
    \E i \in DOMAIN agents :
       /\ EventsOf(agents[i], "Arrived work") # {}
       /\ \E w \in EventsOf(agents[i], "Wake up") :
             agents[i].log[w].time > agents[i].workStart

\* ---- the courier's timing

\* departureTime = max(0, lunchStart - travel time) of a waiting courier d of
\* owner a, times d.speed: the travel time is (steps / speed) real seconds
TimedDeparture(d, a) ==
    Max(0, a.lunchStart * d.speed - (Len(d.deliveryPath) - 1) * UnitsPerSec)

\* C28: a courier leaves waiting only in an update call with simHours >= its
\* departureTime = max(0, lunchStart - travel time), and when departureTime
\* is not clamped to 0 the delivery event is stamped no earlier than the
\* owner's lunchStart.
C28_CourierOnTime ==
    /\ [](\A j \in DOMAIN drivers :
            /\ drivers[j].phase = "waiting"
                  => drivers[j].departureNum
                        = TimedDeparture(drivers[j], agents[drivers[j].agent])
            /\ drivers[j].departureNum > 0
                  => \A k \in EventsOf(agents[drivers[j].agent], "Delivery by") :
                        agents[drivers[j].agent].log[k].time
                           >= agents[drivers[j].agent].lunchStart)
    /\ [][\A j \in DOMAIN drivers :
            (drivers[j].phase = "waiting" /\ drivers'[j].phase # "waiting")
               => /\ clock' * drivers[j].speed >= drivers[j].departureNum
                  /\ drivers'[j].phase = "delivering"]_vars

\* a courier that left on time has delivered within two frames of lunchStart
C28_Witness ==
    \E j \in DOMAIN drivers :
       /\ drivers[j].departureNum > 0
       /\ stalls = 0
       /\ \E k \in EventsOf(agents[drivers[j].agent], "Delivery by") :
             agents[drivers[j].agent].log[k].time
                <= agents[drivers[j].agent].lunchStart + 2 * FrameGap

\* ---- the drop-off

\* C29: a courier in dropping_off is on the workplace cell and stays there,
\* in that phase, through every update call with simHours below arrival hour
\* + 10 minutes; it starts returning only in a call with simHours >= that
\* hour, and its position does not change while it is dropping_off.
C29_DropOffDwell ==
    /\ [](\A j \in DOMAIN drivers :
            drivers[j].phase = "dropping_off"
               => /\ drivers[j].x = drivers[j].business[1] * UnitsPerSec
                  /\ drivers[j].y = drivers[j].business[2] * UnitsPerSec
                  /\ \E k \in EventsOf(agents[drivers[j].agent], "Delivery by") :
                        drivers[j].dropOffEnd
                           = agents[drivers[j].agent].log[k].time + 10)
    /\ [][\A j \in DOMAIN drivers :
            drivers[j].phase = "dropping_off"
               => /\ drivers'[j].x = drivers[j].x /\ drivers'[j].y = drivers[j].y
                  /\ drivers'[j].dropOffEnd = drivers[j].dropOffEnd
                  /\ (running' /\ clock' < drivers[j].dropOffEnd)
                        => drivers'[j].phase = "dropping_off"
                  /\ drivers'[j].phase # "dropping_off"
                        => /\ clock' >= drivers[j].dropOffEnd
                           /\ drivers'[j].phase \in {"returning", "done"}]_vars

\* a courier has started its way back in the first call at or after the end
\* of its ten minutes
C29_Witness ==
    \E j \in DOMAIN drivers :
       /\ drivers[j].phase = "returning"
       /\ drivers[j].pathIndex = 0
       /\ clock >= drivers[j].dropOffEnd
       /\ clock < drivers[j].dropOffEnd + FrameGap

\* ---- the courier at rest

\* C30: a courier in phase done is on its spawn eatery cell, whether it was
\* done at construction or after its round trip; it is never done on the
\* workplace cell.
C30_DoneAtEatery ==
    \A j \in DOMAIN drivers :
       drivers[j].phase = "done"
          => /\ drivers[j].x = drivers[j].eatery[1] * UnitsPerSec
             /\ drivers[j].y = drivers[j].eatery[2] * UnitsPerSec
             /\ <<drivers[j].x, drivers[j].y>>
                   # <<drivers[j].business[1] * UnitsPerSec,
                        drivers[j].business[2] * UnitsPerSec>>

\* one courier is done after its round trip
C30_Witness ==
    \E j \in DOMAIN drivers :
       /\ drivers[j].phase = "done"
       /\ drivers[j].dropOffEnd > 0
       /\ clock >= drivers[j].dropOffEnd + FrameGap
       /\ EventsOf(agents[drivers[j].agent], "Delivery by") # {}

\* ---- the order of a log

\* C31: the timestamps of each actor's event log are non-decreasing in log
\* order throughout a run, the delivery event its courier appends included
\* (the ticks of a run come with non-decreasing simHours).
C31_LogTimesOrdered ==
    \A i \in DOMAIN agents :
       \A k \in DOMAIN agents[i].log :
          k > 1 => agents[i].log[k - 1].time <= agents[i].log[k].time

\* a courier's delivery entry lies between entries of its actor, later than
\* the one before it and no later than the one after it
C31_Witness ==
    \E i \in DOMAIN agents :
       \E k \in EventsOf(agents[i], "Delivery by") :
          /\ k > 1 /\ k < Len(agents[i].log)
          /\ agents[i].log[k - 1].event = "Ordered delivery"
          /\ agents[i].log[k - 1].time < agents[i].log[k].time
          /\ agents[i].log[k].time <= agents[i].log[k + 1].time

\* ---- what an actor shows

\* the visible state that goes with a phase
StateOf(phase) ==
    CASE phase \in {"sleeping", "asleep_night"} -> "sleeping"
      [] phase \in {"waiting_for_work", "at_home_considering_leisure",
                    "at_home_evening"} -> "home"
      [] phase = "at_work" -> "working"
      [] phase \in {"at_lunch", "at_leisure"} -> "leisure"
      [] OTHER -> "traveling"

\* C32: during a run the visible state of an actor is a function of its
\* phase after every update call: sleeping and asleep_night show sleeping;
\* waiting_for_work, at_home_considering_leisure and at_home_evening show
\* home; at_work shows working; at_lunch and at_leisure show leisure; the
\* commuting phases and returning_from_lunch show traveling.
C32_StateOfPhase ==
    \A i \in DOMAIN agents : agents[i].state = StateOf(agents[i].phase)

\* an actor that found no route home from its lunch is home for the evening
C32_Witness ==
    \E i \in DOMAIN agents :
       /\ agents[i].phase \in AtHomePhases
       /\ agents[i].state = "home"
       /\ agents[i].navResult = "null"
       /\ EventsOf(agents[i], "Left for lunch") # {}
       /\ EventsOf(agents[i], "Arrived home") # {}

\* the actor is on cell p
OnCell(a, p) == a.x = p[1] * UnitsPerSec /\ a.y = p[2] * UnitsPerSec

\* C33: during a run, after every update call, an actor shown home or
\* sleeping is on its home cell and an actor shown working is on its
\* workplace cell.
C33_ShownWhereItIs ==
    \A i \in DOMAIN agents :
       /\ agents[i].state \in {"home", "sleeping"} => OnCell(agents[i], agents[i].home)
       /\ agents[i].state = "working" => OnCell(agents[i], agents[i].workplace)

\* an actor is back at work after its lunch at the eatery
C33_Witness ==
    \E i \in DOMAIN agents :
       /\ agents[i].state = "working"
       /\ LastEvent(agents[i]) = "Returned to work"
       /\ OnCell(agents[i], agents[i].workplace)
       /\ agents[i].workplace # agents[i].home

\* C34: through every order of start, stop, pause, resume, replay,
\* generateCity and the frame callbacks, paused implies running, running and
\* _replaying are never both true, and the browser holds at most one frame
\* callback.
C34_DriverFlags ==
    /\ paused => running
    /\ ~(running /\ replayState.replaying)
    /\ Len(pending) <= 1

\* replay was called on a run that had not reached its end: the run is off
\* and the one callback the browser holds is the replay's
C34_Witness ==
    /\ call.op = "replay" /\ call.done
    /\ Len(frameCache) >= 2
    /\ frameCache[Len(frameCache)].simHours < SimDuration
    /\ ~running /\ ~paused /\ replayState.replaying
    /\ pending = <<"replay">>

\* C35: after every tick of a run that called update, the deltaSeconds given
\* to the update calls of the run so far add up to the elapsedTotal of that
\* tick.
C35_NoDrift ==
    (running /\ call.op \in TickOps /\ call.done) => timer.moved = elapsedTotal(timer)

\* C35 for the runs that were not paused
C35_NoDriftUnpaused ==
    (running /\ call.op \in TickOps /\ call.done /\ used.pauses = 0) =>
        timer.moved = elapsedTotal(timer)

\* the deltaSeconds never add up to more than the elapsedTotal
C35_MovedNoMore ==
    (running /\ call.op \in TickOps /\ call.done) => timer.moved <= elapsedTotal(timer)

\* C36: in the frame log realTime and simHours do not decrease from frame to
\* frame, every simHours is within 0 .. 24 h, and every frame lists the
\* current actors by id, in creation order, and as many couriers as there are.
C36_FrameLogOrdered ==
    \A k \in 1..Len(frameCache) :
       /\ frameCache[k].simHours >= 0
       /\ frameCache[k].simHours <= SIM_DURATION_HOURS * MinutesPerHour
       /\ k > 1 => /\ frameCache[k - 1].realTime <= frameCache[k].realTime
                   /\ frameCache[k - 1].simHours <= frameCache[k].simHours
       /\ Len(frameCache[k].agents) = Len(agents)
       /\ \A i \in DOMAIN agents : frameCache[k].agents[i].id = agents[i].id
       /\ Len(frameCache[k].drivers) = Len(drivers)

\* the log of a whole run that was paused on its way, with two actors and a
\* courier in every frame, has been played again to its end
C36_Witness ==
    /\ used.completed >= 1 /\ used.pauses >= 1
    /\ Len(frameCache) >= 4
    /\ frameCache[Len(frameCache)].simHours = SIM_DURATION_HOURS * MinutesPerHour
    /\ frameCache[1].realTime < frameCache[2].realTime
    /\ Len(agents) = 2 /\ Len(drivers) = 1

\* ---- how often a phase is entered

\* the place of an actor in its day: the phases in the order of the day, with
\* at_work after lunch (or after the lunch test was settled) above the three
\* lunch phases
DayRank(a) ==
    CASE a.phase = "sleeping" -> 0
      [] a.phase = "waiting_for_work" -> 1
      [] a.phase = "commuting_to_work" -> 2
      [] a.phase = "at_work" -> IF a.hadLunch THEN 7 ELSE 3
      [] a.phase = "commuting_to_lunch" -> 4
      [] a.phase = "at_lunch" -> 5
      [] a.phase = "returning_from_lunch" -> 6
      [] a.phase = "commuting_home_from_work" -> 8
      [] a.phase = "at_home_considering_leisure" -> 9
      [] a.phase = "commuting_to_leisure" -> 10
      [] a.phase = "at_leisure" -> 11
      [] a.phase = "commuting_home_from_leisure" -> 12
      [] a.phase = "at_home_evening" -> 13
      [] a.phase = "asleep_night" -> 14
      [] OTHER -> 15

\* the events of which a log holds one at most, and those of which two
OnceEvents ==
    {"Wake up", "Arrived work", "Ordered delivery", "Left for lunch", "Left work",
     "Arrived leisure", "Went to sleep"}

TwiceEvents == {"Left home", "Arrived home"}

\* C37: within a run an actor enters no phase but at_work more than once and
\* at_work at most twice (every change of phase takes the actor up in the
\* order of the day, in which at_work stands before and after lunch), and its
\* log holds at most one of each of 'Wake up', 'Arrived work', 'Ordered
\* delivery', 'Left for lunch', 'Left work', 'Arrived leisure', 'Went to
\* sleep' and at most two 'Left home' and two 'Arrived home'.
C37_OncePerPhase ==
    /\ [](\A i \in DOMAIN agents :
             /\ DayRank(agents[i]) <= 14
             /\ \A e \in OnceEvents : Cardinality(EventsOf(agents[i], e)) <= 1
             /\ \A e \in TwiceEvents : Cardinality(EventsOf(agents[i], e)) <= 2)
    /\ [][\A i \in DOMAIN agents :
             /\ DayRank(agents'[i]) >= DayRank(agents[i])
             /\ agents'[i].phase # agents[i].phase =>
                   DayRank(agents'[i]) > DayRank(agents[i])]_vars

\* an actor has gone through its whole day, twice into at_work, and its log
\* holds two 'Left home' and two 'Arrived home'
C37_Witness ==
    \E i \in DOMAIN agents :
       /\ agents[i].phase = "asleep_night"
       /\ EventsOf(agents[i], "Returned to work") # {}
       /\ Cardinality(EventsOf(agents[i], "Left home")) = 2
       /\ Cardinality(EventsOf(agents[i], "Arrived home")) = 2
       /\ \A e \in OnceEvents \ {"Ordered delivery"} :
             Cardinality(EventsOf(agents[i], e)) = 1

\* ---- no event before its time

\* the threshold in a's schedule that the event e waits for
ThresholdOf(a, e) ==
    CASE e = "Wake up" -> a.wakeUpTime
      [] e = "Ordered delivery" -> a.orderTime
      [] e = "Left for lunch" -> a.lunchStart
      [] e \in {"Left work", "Left eatery (late)"} -> a.workEnd
      [] e = "Went to sleep" -> a.bedTime
      [] OTHER -> 0

\* the first entry of a's log that names the event e, as a set of indices
FirstOf(a, e) == { k \in EventsOf(a, e) : \A m \in EventsOf(a, e) : k <= m }

\* C38: no event is logged before its threshold: 'Wake up' at wakeUpTime or
\* later, the first 'Left home' at workStart or later, 'Ordered delivery' at
\* orderTime, 'Left for lunch' at lunchStart, 'Left work' and 'Left eatery
\* (late)' at workEnd, 'Went to sleep' at bedTime or later; and no tick before
\* workEnd puts an actor into commuting_home_from_work.
C38_NotBeforeThreshold ==
    /\ [](\A i \in DOMAIN agents :
             /\ \A k \in DOMAIN agents[i].log :
                   agents[i].log[k].time >= ThresholdOf(agents[i], agents[i].log[k].event)
             /\ \A k \in FirstOf(agents[i], "Left home") :
                   agents[i].log[k].time >= agents[i].workStart)
    /\ [][\A i \in DOMAIN agents :
             (agents'[i].phase = "commuting_home_from_work"
              /\ agents[i].phase # "commuting_home_from_work")
                 => clock' >= agents[i].workEnd]_vars

\* an actor's log holds every kind of event that waits for a threshold but
\* the late leave from the eatery, and a late frame has put one of them past
\* its threshold
C38_Witness ==
    \E i \in DOMAIN agents :
       /\ \A e \in {"Wake up", "Left home", "Left for lunch", "Left work",
                    "Went to sleep"} : EventsOf(agents[i], e) # {}
       /\ \E k \in DOMAIN agents[i].log :
             /\ agents[i].log[k].event \in {"Left for lunch", "Left work"}
             /\ agents[i].log[k].time > ThresholdOf(agents[i], agents[i].log[k].event)

\* a log holds 'Left eatery (late)', stamped at workEnd or later
C38_WitnessLate ==
    \E i \in DOMAIN agents :
       \E k \in EventsOf(agents[i], "Left eatery (late)") :
          agents[i].log[k].time >= agents[i].workEnd

\* ---- departures

\* the travel phases that the departure event e announces
TripPhases(e) ==
    CASE e = "Left home" -> {"commuting_to_work", "commuting_to_leisure"}
      [] e = "Left for lunch" -> {"commuting_to_lunch"}
      [] e = "Left eatery" -> {"returning_from_lunch"}
      [] e = "Left leisure" -> {"commuting_home_from_leisure"}
      [] e = "Left work" -> {"commuting_home_from_work"}
      [] OTHER -> {}

DepartureEvents ==
    {"Left home", "Left for lunch", "Left eatery", "Left leisure", "Left work"}

\* the entries that the step has appended to the log of actor i, as indices
NewEntries(i) == { k \in DOMAIN agents'[i].log : k > Len(agents[i].log) }

\* C39: a departure event is appended only in a tick that also puts the actor
\* into the travel phase of that trip, on a route that was found.
C39_DepartureMeansTravel ==
    [][\A i \in DOMAIN agents :
          \A k \in NewEntries(i) :
             agents'[i].log[k].event \in DepartureEvents =>
                /\ agents'[i].phase \in TripPhases(agents'[i].log[k].event)
                /\ agents'[i].phase # agents[i].phase
                /\ agents'[i].path # NoPath]_vars

\* C39 for 'Left home' alone, which is logged after the route was found
C39_LeftHomeMeansTravel ==
    [][\A i \in DOMAIN agents :
          \A k \in NewEntries(i) :
             agents'[i].log[k].event = "Left home" =>
                /\ agents'[i].phase \in TripPhases("Left home")
                /\ agents'[i].phase # agents[i].phase
                /\ agents'[i].path # NoPath]_vars

\* ---- what a completed replay leaves

\* the step in which a replay shows its last frame
ReplayCompletes == used'.completed > used.completed

\* C40 (a): a replay that runs to completion has played a frame log that ends
\* with the final snapshot of hour 24
C40_PlayedWholeRun ==
    [][ReplayCompletes =>
          frameCache[Len(frameCache)].simHours = SIM_DURATION_HOURS * MinutesPerHour]_vars

\* C40 (b): a replay that runs to completion leaves every actor's log with
\* the content it had (no step of a replay before the last touches a log)
C40_LogsKept ==
    [][ReplayCompletes => \A i \in DOMAIN agents : agents'[i].log = agents[i].log]_vars

\* C40: whenever a replay runs to completion, through any order of start,
\* replay and run completion, the frame log it played ends with the hour-24
\* snapshot and every actor's log has the content it had when the replay
\* began.
C40_ReplayComplete ==
    [][ReplayCompletes =>
          /\ frameCache[Len(frameCache)].simHours = SIM_DURATION_HOURS * MinutesPerHour
          /\ \A i \in DOMAIN agents : agents'[i].log = agents[i].log]_vars

\* C40 for the replay of a run that reached its end and was not followed by
\* another start
C40_ReplayOfEndedRun ==
    [][(ReplayCompletes /\ used.runs = 1
        /\ frameCache[Len(frameCache)].simHours = SIM_DURATION_HOURS * MinutesPerHour) =>
          \A i \in DOMAIN agents : agents'[i].log = agents[i].log]_vars

\* ------------------------------------------------- findPath, called alone
\* grids of PathCols x PathRows tiles (at most three rows), each tile a road
\* or a building
PathCols == 3
PathRows == IF PathCols > 3 THEN 3 ELSE PathCols

PathCities ==
    { [cols |-> PathCols, rows |-> PathRows, grid |-> g] :
        g \in [1..PathRows -> [1..PathCols -> {ROAD, HOUSE}]] }

Cells(c) == (0..(c.cols - 1)) \X (0..(c.rows - 1))

InitRoute ==
    \E c \in PathCities :
        \E s \in Cells(c), e \in Cells(c) :
            route = [city |-> c, sx |-> s[1], sy |-> s[2], ex |-> e[1], ey |-> e[2],
                     called |-> FALSE, path |-> NoPath,
                     calledBack |-> FALSE, back |-> NoPath]

\* findPath(city, sx, sy, ex, ey)
FindForward ==
    /\ ~route.called
    /\ route' = [route EXCEPT !.called = TRUE,
                    !.path = findPath(route.city, route.sx, route.sy, route.ex, route.ey)]
    /\ UNCHANGED <<city, agents, drivers, clock, running, stalls>>
    /\ UNCHANGED controls

\* findPath(city, ex, ey, sx, sy): the same two cells, the other way round
FindBackward ==
    /\ ~route.calledBack
    /\ route' = [route EXCEPT !.calledBack = TRUE,
                    !.back = findPath(route.city, route.ex, route.ey, route.sx, route.sy)]
    /\ UNCHANGED <<city, agents, drivers, clock, running, stalls>>
    /\ UNCHANGED controls

InitPath ==
    /\ InitRoute
    /\ city = "Bare"
    /\ agents = <<>>
    /\ drivers = <<>>
    /\ clock = 0
    /\ running = FALSE
    /\ stalls = 0
    /\ Constructed

NextPath == FindForward \/ FindBackward

SpecPath == InitPath /\ [][NextPath]_vars

\* ---- reference notions the findPath claims are stated with
Abs(n) == IF n < 0 THEN 0 - n ELSE n

Adjacent4(p, q) == Abs(p[1] - q[1]) + Abs(p[2] - q[2]) = 1

\* a sequence of in-bounds, 4-adjacent cells from s to e whose inner cells are roads
IsRoute(c, s, e, p) ==
    /\ Len(p) >= 1
    /\ p[1] = s
    /\ p[Len(p)] = e
    /\ \A i \in 1..Len(p) : p[i] \in Cells(c)
    /\ \A i \in 1..(Len(p) - 1) : Adjacent4(p[i], p[i + 1])
    /\ \A i \in 2..(Len(p) - 1) : TileAt(c, p[i][1], p[i][2]) = ROAD

\* fewest hops of any such sequence, -1 when there is none: the cells reached
\* in n hops through roads, layer by layer
RECURSIVE HopsFrom(_, _, _, _, _)
HopsFrom(c, e, frontier, seen, n) ==
    IF \E p \in frontier : Adjacent4(p, e) THEN n + 1
    ELSE
        LET next == { q \in Cells(c) \ seen :
                        /\ TileAt(c, q[1], q[2]) = ROAD
                        /\ \E p \in frontier : Adjacent4(p, q) }
        IN  IF next = {} THEN 0 - 1
            ELSE HopsFrom(c, e, next, seen \cup next, n + 1)

Hops(c, s, e) == IF s = e THEN 0 ELSE HopsFrom(c, e, {s}, {s}, 0)

RouteStart == <<route.sx, route.sy>>
RouteEnd   == <<route.ex, route.ey>>

\* C7: a returned path runs from start to end over 4-adjacent in-bounds cells
\* with only roads in between, no such sequence has fewer hops, and for
\* start = end the path is the single cell.
C7_ShortestRoute ==
    (route.called /\ route.path # NoPath) =>
        /\ IsRoute(route.city, RouteStart, RouteEnd, route.path)
        /\ Len(route.path) - 1 = Hops(route.city, RouteStart, RouteEnd)
        /\ (RouteStart = RouteEnd => route.path = <<RouteStart>>)

\* a path of at least 4 hops returned where the straight line is shorter
C7_Witness ==
    /\ route.called
    /\ Len(route.path) >= 5
    /\ Len(route.path) - 1 > Abs(route.sx - route.ex) + Abs(route.sy - route.ey)

\* C8: findPath(A,B) finds a path exactly when findPath(B,A) does, and the two
\* have the same hop count, building cells as endpoints included.
C8_Symmetric ==
    (route.called /\ route.calledBack) =>
        /\ (route.path = NoPath) <=> (route.back = NoPath)
        /\ Len(route.path) = Len(route.back)

\* both directions found between two distinct building cells
C8_Witness ==
    /\ route.called /\ route.calledBack
    /\ Len(route.path) >= 3 /\ Len(route.back) >= 3
    /\ TileAt(route.city, route.sx, route.sy) # ROAD
    /\ TileAt(route.city, route.ex, route.ey) # ROAD

\* C9: findPath returns null exactly when no sequence of 4-adjacent in-bounds
\* cells with only roads in between joins start and end.
C9_NullIffUnreachable ==
    route.called =>
        ((route.path = NoPath) <=> (Hops(route.city, RouteStart, RouteEnd) = 0 - 1))

\* null returned although the start has a road next to it
C9_Witness ==
    /\ route.called
    /\ route.path = NoPath
    /\ \E q \in Cells(route.city) :
          Adjacent4(RouteStart, q) /\ TileAt(route.city, q[1], q[2]) = ROAD

=============================================================================
